---- MODULE Spec2Model ----
(***************************************************************************)
(* A model of the Android boot image tools: mkbootimg.py (the encoder),    *)
(* unpack_bootimg.py (the decoder) and the re-encode that                  *)
(* repack_bootimg.py drives from the decoder's mkbootimg_args.json.        *)
(*                                                                         *)
(* Representation.                                                         *)
(*  - A byte string (command line, board name, ramdisk name, magic) is a   *)
(*    run-length list <<c, n>> of byte values, a lossless encoding of the  *)
(*    bytes; a string of characters is the same list of character codes,   *)
(*    and encode and decode are UTF-8 for the codes below 2048.            *)
(*  - A short text (a number or version literal on the command line or in  *)
(*    mkbootimg_args.json) is a plain sequence of ASCII codes.             *)
(*  - A header integer is a natural number written as its hexadecimal      *)
(*    digits, most significant first, no leading zero (<<>> is 0), so that *)
(*    struct.pack's range check is a check of the number of digits.        *)
(*  - A file is a sequence of chunks, one per write: "I" (4 bytes), "Q"    *)
(*    (8 bytes), "s" (a fixed-width byte string), "x" (zero padding), "d"  *)
(*    (a slice of an opaque input file) and "sha" (the 32-byte id field).  *)
(***************************************************************************)
EXTENDS Integers, Sequences, FiniteSets, TLC

\* ------------------------------------------------------------ byte strings

Zeros(n) == IF n <= 0 THEN <<>> ELSE << <<0, n>> >>

Rep(c, n) == IF n <= 0 THEN <<>> ELSE << <<c, n>> >>

\* concatenation, merging the runs that meet
Cat(s, t) ==
    IF s = <<>> THEN t
    ELSE IF t = <<>> THEN s
    ELSE IF s[Len(s)][1] = t[1][1]
         THEN SubSeq(s, 1, Len(s) - 1)
              \o << <<t[1][1], s[Len(s)][2] + t[1][2]>> >>
              \o SubSeq(t, 2, Len(t))
         ELSE s \o t

RECURSIVE StrLen(_)
StrLen(s) == IF s = <<>> THEN 0 ELSE s[1][2] + StrLen(Tail(s))

\* s[:k]
RECURSIVE Take(_, _)
Take(s, k) ==
    IF k <= 0 \/ s = <<>> THEN <<>>
    ELSE IF s[1][2] >= k THEN << <<s[1][1], k>> >>
    ELSE <<s[1]>> \o Take(Tail(s), k - s[1][2])

\* s[k:]
RECURSIVE Drop(_, _)
Drop(s, k) ==
    IF s = <<>> THEN <<>>
    ELSE IF k <= 0 THEN s
    ELSE IF s[1][2] > k THEN << <<s[1][1], s[1][2] - k>> >> \o Tail(s)
    ELSE Drop(Tail(s), k - s[1][2])

\* the byte string of a text
RECURSIVE TextBytes(_)
TextBytes(t) == IF t = <<>> THEN <<>> ELSE Cat(<< <<t[1], 1>> >>, TextBytes(Tail(t)))

HasNul(s) == \E i \in 1..Len(s) : s[i][1] = 0

\* index of the first NUL byte (0-based), StrLen(s) when there is none
RECURSIVE FirstNul(_)
FirstNul(s) ==
    IF s = <<>> THEN 0
    ELSE IF s[1][1] = 0 THEN 0
    ELSE s[1][2] + FirstNul(Tail(s))

\* the UTF-8 bytes of n characters c, 128 <= c < 2048: two bytes each
Utf8Run(c, n) ==
    [i \in 1..(2 * n) |-> IF i % 2 = 1 THEN <<192 + (c \div 64), 1>> ELSE <<128 + (c % 64), 1>>]

\* str.encode(): the UTF-8 bytes of a string of characters below 2048
RECURSIVE encode(_)
encode(s) ==
    IF \A i \in 1..Len(s) : s[i][1] < 128 THEN s
    ELSE IF s[1][1] < 128 THEN Cat(<<s[1]>>, encode(Tail(s)))
    ELSE Cat(Utf8Run(s[1][1], s[1][2]), encode(Tail(s)))

IsLeadByte(b) == b >= 192 /\ b < 224

IsContinuationByte(b) == b >= 128 /\ b < 192

\* whether bytes.decode() accepts b: every byte from 128 on is a lead byte
\* followed by one continuation byte
RECURSIVE Decodable(_)
Decodable(b) ==
    IF \A i \in 1..Len(b) : b[i][1] < 128 THEN TRUE
    ELSE IF b[1][1] < 128 THEN Decodable(Tail(b))
    ELSE /\ IsLeadByte(b[1][1]) /\ b[1][2] = 1
         /\ Len(b) >= 2 /\ IsContinuationByte(b[2][1])
         /\ Decodable(Drop(b, 2))

\* bytes.decode() of bytes it accepts
RECURSIVE decode(_)
decode(b) ==
    IF \A i \in 1..Len(b) : b[i][1] < 128 THEN b
    ELSE IF b[1][1] < 128 THEN Cat(<<b[1]>>, decode(Tail(b)))
    ELSE Cat(<< <<(b[1][1] - 192) * 64 + (b[2][1] - 128), 1>> >>, decode(Drop(b, 2)))

\* ------------------------------------------------------------ numbers

RECURSIVE IntToNum(_)
IntToNum(n) == IF n <= 0 THEN <<>> ELSE Append(IntToNum(n \div 16), n % 16)

RECURSIVE NumToInt(_)
NumToInt(d) ==
    IF d = <<>> THEN 0 ELSE NumToInt(SubSeq(d, 1, Len(d) - 1)) * 16 + d[Len(d)]

RECURSIVE StripZeros(_)
StripZeros(d) == IF d # <<>> /\ d[1] = 0 THEN StripZeros(Tail(d)) ELSE d

\* digit of d at position i counted from the least significant one (i >= 1)
DigitAt(d, i) == IF i <= Len(d) THEN d[Len(d) - i + 1] ELSE 0

RECURSIVE AddFrom(_, _, _, _)
AddFrom(a, b, i, carry) ==
    IF i > Len(a) /\ i > Len(b)
    THEN IF carry = 0 THEN <<>> ELSE <<carry>>
    ELSE LET t == DigitAt(a, i) + DigitAt(b, i) + carry
         IN  Append(AddFrom(a, b, i + 1, t \div 16), t % 16)

\* a + b on unbounded naturals
NumAdd(a, b) == StripZeros(AddFrom(a, b, 1, 0))

\* ------------------------------------------------------------ texts

\* optional values: <<>> is "not given", <<x>> is x
None == <<>>

Some(x) == <<x>>

IsDigit(c) == c >= 48 /\ c <= 57

IsHexDigit(c) == IsDigit(c) \/ (c >= 97 /\ c <= 102)

HexVal(c) == IF IsDigit(c) THEN c - 48 ELSE c - 87

HexChar(v) == IF v < 10 THEN 48 + v ELSE 87 + v

\* the number of decimal digits of t from position i on, at most max
RECURSIVE DigitRun(_, _, _)
DigitRun(t, i, max) ==
    IF max = 0 \/ i > Len(t) \/ ~IsDigit(t[i]) THEN 0
    ELSE 1 + DigitRun(t, i + 1, max - 1)

\* int() of the decimal digits t[i..j]
RECURSIVE DecVal(_, _, _)
DecVal(t, i, j) == IF j < i THEN 0 ELSE DecVal(t, i, j - 1) * 10 + (t[j] - 48)

\* '{:0<w>d}'.format(n)
RECURSIVE DecText(_, _)
DecText(n, w) ==
    IF n < 10 /\ w <= 1 THEN <<48 + n>>
    ELSE Append(DecText(n \div 10, w - 1), 48 + (n % 10))

\* '{:#0<w+2>x}'.format(d): "0x" and at least w hexadecimal digits
HexText(d, w) ==
    LET body == IF d = <<>> THEN <<0>> ELSE d
        fill == IF Len(body) >= w THEN <<>> ELSE [i \in 1..(w - Len(body)) |-> 0]
    IN  <<48, 120>> \o [i \in 1..Len(fill \o body) |-> HexChar((fill \o body)[i])]

\* ------------------------------------------------------------ mkbootimg.py: constants

BOOT_MAGIC == TextBytes(<<65, 78, 68, 82, 79, 73, 68, 33>>)

BOOT_IMAGE_HEADER_V1_SIZE == 1648

BOOT_IMAGE_HEADER_V2_SIZE == 1660

BOOT_IMAGE_HEADER_V3_SIZE == 1580

BOOT_IMAGE_HEADER_V3_PAGESIZE == 4096

VENDOR_BOOT_MAGIC == TextBytes(<<86, 78, 68, 82, 66, 79, 79, 84>>)

VENDOR_BOOT_IMAGE_HEADER_V3_SIZE == 2112

VENDOR_BOOT_IMAGE_HEADER_V4_SIZE == 2128

VENDOR_RAMDISK_TYPE_NONE == 0

VENDOR_RAMDISK_TYPE_PLATFORM == 1

VENDOR_RAMDISK_TYPE_RECOVERY == 2

VENDOR_RAMDISK_TYPE_DLKM == 3

VENDOR_RAMDISK_NAME_SIZE == 32

VENDOR_RAMDISK_TABLE_ENTRY_BOARD_ID_SIZE == 16

VENDOR_RAMDISK_TABLE_ENTRY_V4_SIZE == 108

\* the buffer sizes of the command line fields
BOOT_ARGS_SIZE == 512

BOOT_EXTRA_ARGS_SIZE == 1024

BOOT_V3_ARGS_SIZE == 1536

VENDOR_BOOT_ARGS_SIZE == 2048

BOOT_NAME_SIZE == 16

\* the maxlen of the AssertString of --cmdline, --vendor_cmdline, --board
CmdlineMaxLen == 1536

VendorCmdlineMaxLen == 2048

BoardMaxLen == 16

\* --pagesize choices: [2**i for i in range(11, 15)]
PageSizeChoices == {2048, 4096, 8192, 16384}

NoError == "none"

\* the first error of a sequence of results, in order
RECURSIVE FirstErr(_)
FirstErr(es) ==
    IF es = <<>> THEN NoError
    ELSE IF es[1] # NoError THEN es[1]
    ELSE FirstErr(Tail(es))

\* ------------------------------------------------------------ mkbootimg.py: argument types

\* filesize(f): 0 for None
filesize(f) == IF f = None THEN 0 ELSE f[1].size

\* parse_int(x) = int(x, 0), for "0x" literals and decimal literals
parse_int(x) ==
    IF Len(x) >= 3 /\ x[1] = 48 /\ x[2] = 120
       /\ \A i \in 3..Len(x) : IsHexDigit(x[i])
    THEN [err |-> NoError,
          v |-> StripZeros([i \in 1..(Len(x) - 2) |-> HexVal(x[i + 2])])]
    ELSE IF Len(x) >= 1 /\ (\A i \in 1..Len(x) : IsDigit(x[i]))
            /\ (x[1] # 48 \/ \A i \in 1..Len(x) : x[i] = 48)
    THEN [err |-> NoError, v |-> IntToNum(DecVal(x, 1, Len(x)))]
    ELSE [err |-> "InvalidInt", v |-> <<>>]

\* AssertString(maxlen).__call__(arg)
AssertString(maxlen, arg) ==
    IF StrLen(arg) > maxlen THEN "StringLengthExceeded" ELSE NoError

\* parse_os_version(x): the regular expression takes up to three digits of
\* each of up to three dot-separated fields at the start of x
parse_os_version(x) ==
    LET n1 == DigitRun(x, 1, 3)
        dot1 == n1 + 1 <= Len(x) /\ x[n1 + 1] = 46
        n2 == IF dot1 THEN DigitRun(x, n1 + 2, 3) ELSE 0
        dot2 == n2 > 0 /\ n1 + n2 + 2 <= Len(x) /\ x[n1 + n2 + 2] = 46
        n3 == IF dot2 THEN DigitRun(x, n1 + n2 + 3, 3) ELSE 0
        a == DecVal(x, 1, n1)
        b == IF n2 > 0 THEN DecVal(x, n1 + 2, n1 + 1 + n2) ELSE 0
        c == IF n3 > 0 THEN DecVal(x, n1 + n2 + 3, n1 + n2 + 2 + n3) ELSE 0
    IN  IF n1 = 0 THEN [err |-> NoError, v |-> 0]
        ELSE IF a < 128 /\ b < 128 /\ c < 128
        THEN [err |-> NoError, v |-> a * 16384 + b * 128 + c]
        ELSE [err |-> "AssertionError", v |-> 0]

\* parse_os_patch_level(x): YYYY-MM at the start of x
parse_os_patch_level(x) ==
    LET match == DigitRun(x, 1, 4) = 4 /\ Len(x) >= 7 /\ x[5] = 45
                 /\ DigitRun(x, 6, 2) = 2
        y == DecVal(x, 1, 4) - 2000
        m == DecVal(x, 6, 7)
    IN  IF ~match THEN [err |-> NoError, v |-> 0]
        ELSE IF 0 <= y /\ y < 128 /\ 0 < m /\ m <= 12
        THEN [err |-> NoError, v |-> y * 16 + m]
        ELSE [err |-> "AssertionError", v |-> 0]

\* parse_vendor_ramdisk_type(x), x in lower case
parse_vendor_ramdisk_type(x) ==
    IF x = <<110, 111, 110, 101>> THEN [err |-> NoError, v |-> IntToNum(VENDOR_RAMDISK_TYPE_NONE)]
    ELSE IF x = <<112, 108, 97, 116, 102, 111, 114, 109>>
    THEN [err |-> NoError, v |-> IntToNum(VENDOR_RAMDISK_TYPE_PLATFORM)]
    ELSE IF x = <<114, 101, 99, 111, 118, 101, 114, 121>>
    THEN [err |-> NoError, v |-> IntToNum(VENDOR_RAMDISK_TYPE_RECOVERY)]
    ELSE IF x = <<100, 108, 107, 109>>
    THEN [err |-> NoError, v |-> IntToNum(VENDOR_RAMDISK_TYPE_DLKM)]
    ELSE parse_int(x)

\* ------------------------------------------------------------ files

\* the number of bytes of a chunk
ChunkSize(c) ==
    CASE c.k = "I" -> 4
      [] c.k = "Q" -> 8
      [] c.k = "sha" -> 32
      [] OTHER -> c.n

\* f.tell() after the writes of f: the number of bytes written
RECURSIVE Tell(_)
Tell(f) ==
    IF f = <<>> THEN 0
    ELSE IF Len(f) = 1 THEN ChunkSize(f[1])
    ELSE LET half == Len(f) \div 2
         IN  Tell(SubSeq(f, 1, half)) + Tell(SubSeq(f, half + 1, Len(f)))

\* the bytes of f followed by the bytes of chunk c (adjacent padding and
\* adjacent slices of one input file are one run of bytes)
AppendChunk(f, c) ==
    IF ChunkSize(c) = 0 THEN f
    ELSE IF f # <<>> /\ c.k = "x" /\ f[Len(f)].k = "x"
    THEN [f EXCEPT ![Len(f)].n = @ + c.n]
    ELSE IF f # <<>> /\ c.k = "d" /\ f[Len(f)].k = "d" /\ f[Len(f)].id = c.id
            /\ f[Len(f)].from + f[Len(f)].n = c.from
    THEN [f EXCEPT ![Len(f)].n = @ + c.n]
    ELSE Append(f, c)

\* f.read() of an input file: its bytes
FileBytes(file) ==
    AppendChunk(<<>>, [k |-> "d", id |-> file.id, from |-> 0, n |-> file.size])

\* pack('<n>s', b): b cut to n bytes and filled with NUL bytes
PackS(n, b) == Cat(Take(b, n), Zeros(n - StrLen(Take(b, n))))

\* x & mask for a mask of the form 2**i - 1
BitAndMask(x, mask) == x % (mask + 1)

\* pad_file(f, padding): the number of bytes it writes at position tell
PadBytes(tell, padding) ==
    BitAndMask(padding - BitAndMask(tell, padding - 1), padding - 1)

\* The writes of one function, in order. An op is one of
\*   [k |-> "I", v], [k |-> "Q", v]   f.write(pack('I' / 'Q', v))
\*   [k |-> "s", n, b]                f.write(pack('<n>s', b))
\*   [k |-> "sha", in]                f.write(pack('32s', sha.digest()))
\*   [k |-> "data", name, file]       f.write(f_in.read())
\*   [k |-> "pad", unit]              pad_file(f, unit)
\*   [k |-> "raise", e]               raise e
\*   [k |-> "begin", name]            no write: the header starts here
\* st.f is the file, st.err the exception raised, st.segs the position of
\* each header and segment and of each pad_file call.
Emit(st, op) ==
    IF st.err # NoError THEN st
    ELSE CASE op.k = "I" ->
                IF Len(op.v) > 8 THEN [st EXCEPT !.err = "struct.error"]
                ELSE [st EXCEPT !.f = AppendChunk(@, [k |-> "I", v |-> op.v])]
           [] op.k = "Q" ->
                IF Len(op.v) > 16 THEN [st EXCEPT !.err = "struct.error"]
                ELSE [st EXCEPT !.f = AppendChunk(@, [k |-> "Q", v |-> op.v])]
           [] op.k = "s" ->
                [st EXCEPT !.f = AppendChunk(@, [k |-> "s", n |-> op.n, b |-> PackS(op.n, op.b)])]
           [] op.k = "sha" ->
                [st EXCEPT !.f = AppendChunk(@, [k |-> "sha", in |-> op.in])]
           [] op.k = "data" ->
                [st EXCEPT !.f = AppendChunk(@, [k |-> "d", id |-> op.file.id, from |-> 0,
                                                 n |-> op.file.size]),
                           !.segs = Append(@, [name |-> op.name, off |-> Tell(st.f),
                                               n |-> op.file.size])]
           [] op.k = "pad" ->
                [st EXCEPT !.f = AppendChunk(@, [k |-> "x", n |-> PadBytes(Tell(st.f), op.unit)]),
                           !.segs = Append(@, [name |-> "pad", off |-> Tell(st.f),
                                               n |-> PadBytes(Tell(st.f), op.unit)])]
           [] op.k = "raise" -> [st EXCEPT !.err = op.e]
           [] op.k = "begin" ->
                [st EXCEPT !.segs = Append(@, [name |-> op.name, off |-> Tell(st.f), n |-> 0])]

RECURSIVE Run(_, _)
Run(st, ops) ==
    IF ops = <<>> THEN st
    ELSE IF Len(ops) = 1 THEN Emit(st, ops[1])
    ELSE LET half == Len(ops) \div 2
             mid == Run(st, SubSeq(ops, 1, half))
         IN  IF mid.err = NoError THEN Run(mid, SubSeq(ops, half + 1, Len(ops))) ELSE mid

OpI(n) == [k |-> "I", v |-> n]

OpQ(n) == [k |-> "Q", v |-> n]

OpS(n, b) == [k |-> "s", n |-> n, b |-> b]

OpPad(unit) == [k |-> "pad", unit |-> unit]

OpRaise(e) == [k |-> "raise", e |-> e]

\* write_padded_file(f_out, f_in, padding)
write_padded_file(name, f_in, padding) ==
    IF f_in = None THEN <<>>
    ELSE <<[k |-> "data", name |-> name, file |-> f_in[1]], OpPad(padding)>>

\* an update_sha that feeds nothing for an absent file
update_sha_skipping_absent(f) ==
    IF f # None
    THEN AppendChunk(FileBytes(f[1]), [k |-> "I", v |-> IntToNum(filesize(f))])
    ELSE <<>>

\* update_sha(sha, f): what it feeds to the hash
update_sha(f) ==
    IF f # None
    THEN AppendChunk(FileBytes(f[1]), [k |-> "I", v |-> IntToNum(filesize(f))])
    ELSE <<[k |-> "I", v |-> <<>>]>>

\* a get_number_of_pages that adds a page to a whole number of pages
get_number_of_pages_plus_one(image_size, page_size) == image_size \div page_size + 1

\* get_number_of_pages(image_size, page_size)
get_number_of_pages(image_size, page_size) == (image_size + page_size - 1) \div page_size

\* a get_recovery_dtbo_offset that leaves out the pages of second
get_recovery_dtbo_offset_without_second(args) ==
    LET num_header_pages == 1
        num_kernel_pages == get_number_of_pages(filesize(args.kernel), args.pagesize)
        num_ramdisk_pages == get_number_of_pages(filesize(args.ramdisk), args.pagesize)
    IN  args.pagesize * (num_header_pages + num_kernel_pages + num_ramdisk_pages)

\* get_recovery_dtbo_offset(args)
get_recovery_dtbo_offset(args) ==
    LET num_header_pages == 1
        num_kernel_pages == get_number_of_pages(filesize(args.kernel), args.pagesize)
        num_ramdisk_pages == get_number_of_pages(filesize(args.ramdisk), args.pagesize)
        num_second_pages == get_number_of_pages(filesize(args.second), args.pagesize)
    IN  args.pagesize * (num_header_pages + num_kernel_pages
                         + num_ramdisk_pages + num_second_pages)

\* (os_version << 11) | os_patch_level: os_patch_level has 11 bits, so the
\* or is a sum; the product is os_version * 8 followed by two zero digits
OsWord(os_version, os_patch_level) ==
    NumAdd(IF os_version = 0 THEN <<>> ELSE IntToNum(os_version * 8) \o <<0, 0>>,
           IntToNum(os_patch_level))

\* ------------------------------------------------------------ mkbootimg.py: parse_cmdline

\* the value of an optional integer argument: its default when not given
IntArg(x, default) == IF x = None THEN [err |-> NoError, v |-> default] ELSE parse_int(x[1])

StrArg(x, maxlen) == IF x = None THEN NoError ELSE AssertString(maxlen, x[1])

StrVal(x) == IF x = None THEN <<>> ELSE x[1]

\* an add_entry that does not add the size to ramdisk_total_size
add_entry_unaccumulated(builder, file, ramdisk_type, ramdisk_name, board_id) ==
    [entries |-> Append(builder.entries,
                        [ramdisk_path |-> file,
                         ramdisk_size |-> file.size,
                         ramdisk_offset |-> builder.ramdisk_total_size,
                         ramdisk_type |-> ramdisk_type,
                         ramdisk_name |-> ramdisk_name,
                         board_id |-> board_id]),
     ramdisk_total_size |-> builder.ramdisk_total_size]

\* VendorRamdiskTableBuilder.add_entry(ramdisk_path, ramdisk_type, ramdisk_name, board_id)
add_entry(builder, file, ramdisk_type, ramdisk_name, board_id) ==
    [entries |-> Append(builder.entries,
                        [ramdisk_path |-> file,
                         ramdisk_size |-> file.size,
                         ramdisk_offset |-> builder.ramdisk_total_size,
                         ramdisk_type |-> ramdisk_type,
                         ramdisk_name |-> ramdisk_name,
                         board_id |-> board_id]),
     ramdisk_total_size |-> builder.ramdisk_total_size + file.size]

\* the board_id vector of one option group: --board_id<i> defaults to 0
BoardIdOf(group) ==
    [i \in 1..VENDOR_RAMDISK_TABLE_ENTRY_BOARD_ID_SIZE |->
        IF \E p \in group.board_id : p[1] = i - 1
        THEN parse_int((CHOOSE p \in group.board_id : p[1] = i - 1)[2])
        ELSE [err |-> NoError, v |-> <<>>]]

ZeroBoardId == [i \in 1..VENDOR_RAMDISK_TABLE_ENTRY_BOARD_ID_SIZE |-> <<>>]

\* the duplicate check of one option group against the names seen so far
IsDuplicatedName(ramdisk_name, ramdisk_names) == ramdisk_name \in ramdisk_names

\* one turn of the loop of parse_vendor_ramdisk_args
RECURSIVE ParseGroups(_, _)
ParseGroups(acc, groups) ==
    IF groups = <<>> \/ acc.err # NoError THEN acc
    ELSE LET g == groups[1]
             ty == IF g.ramdisk_type = None
                   THEN [err |-> NoError, v |-> IntToNum(VENDOR_RAMDISK_TYPE_NONE)]
                   ELSE parse_vendor_ramdisk_type(g.ramdisk_type[1])
             ids == BoardIdOf(g)
             e == FirstErr(<<ty.err,
                             IF g.ramdisk_name = None THEN "MissingArgument" ELSE NoError,
                             StrArg(g.ramdisk_name, VENDOR_RAMDISK_NAME_SIZE),
                             FirstErr([i \in 1..Len(ids) |-> ids[i].err]),
                             IF IsDuplicatedName(StrVal(g.ramdisk_name), acc.names)
                             THEN "DuplicatedName" ELSE NoError>>)
         IN  IF e # NoError THEN [acc EXCEPT !.err = e]
             ELSE ParseGroups(
                    [err |-> NoError,
                     unknown |-> acc.unknown + g.unknown,
                     names |-> acc.names \cup {StrVal(g.ramdisk_name)},
                     builder |-> add_entry(acc.builder, g.vendor_ramdisk_fragment, ty.v,
                                           StrVal(g.ramdisk_name),
                                           [i \in 1..Len(ids) |-> ids[i].v])],
                    Tail(groups))

\* parse_vendor_ramdisk_args(args, args_list)
parse_vendor_ramdisk_args(vendor_ramdisk, groups) ==
    LET empty == [entries |-> <<>>, ramdisk_total_size |-> 0]
        start == IF vendor_ramdisk # None
                 THEN [err |-> NoError, unknown |-> 0, names |-> {<<>>},
                       builder |-> add_entry(empty, vendor_ramdisk[1],
                                             IntToNum(VENDOR_RAMDISK_TYPE_NONE), <<>>,
                                             ZeroBoardId)]
                 ELSE [err |-> NoError, unknown |-> 0, names |-> {}, builder |-> empty]
    IN  ParseGroups(start, groups)

\* a parse_cmdline that hands them over for every version
TakesVendorRamdiskArgsOfAnyVersion(vendor_boot, header_version) == vendor_boot

\* whether parse_cmdline hands the unparsed arguments to parse_vendor_ramdisk_args
TakesVendorRamdiskArgs(vendor_boot, header_version) == vendor_boot /\ header_version > 3

\* parse_cmdline(): the Namespace, or the error that ends the program.
\* Type errors are reported in the order of the options below.
parse_cmdline(argv) ==
    LET base == IntArg(argv.base, IntToNum(268435456))
        kernel_offset == IntArg(argv.kernel_offset, IntToNum(32768))
        ramdisk_offset == IntArg(argv.ramdisk_offset, IntToNum(16777216))
        second_offset == IntArg(argv.second_offset, IntToNum(15728640))
        dtb_offset == IntArg(argv.dtb_offset, IntToNum(32505856))
        tags_offset == IntArg(argv.tags_offset, IntToNum(256))
        os_version == IF argv.os_version = None THEN [err |-> NoError, v |-> 0]
                      ELSE parse_os_version(argv.os_version[1])
        os_patch_level == IF argv.os_patch_level = None THEN [err |-> NoError, v |-> 0]
                          ELSE parse_os_patch_level(argv.os_patch_level[1])
        pagesize == IntArg(argv.pagesize, IntToNum(2048))
        pagesize_ok == Len(pagesize.v) <= 4 /\ NumToInt(pagesize.v) \in PageSizeChoices
        header_version == IntArg(argv.header_version, <<>>)
        hv == NumToInt(header_version.v)
        e1 == FirstErr(<<StrArg(argv.cmdline, CmdlineMaxLen),
                         StrArg(argv.vendor_cmdline, VendorCmdlineMaxLen),
                         base.err, kernel_offset.err, ramdisk_offset.err,
                         second_offset.err, dtb_offset.err,
                         os_version.err, os_patch_level.err, tags_offset.err,
                         StrArg(argv.board, BoardMaxLen),
                         pagesize.err,
                         IF pagesize.err = NoError /\ ~pagesize_ok
                         THEN "InvalidChoice" ELSE NoError,
                         header_version.err>>)
        takes == e1 = NoError /\ TakesVendorRamdiskArgs(argv.vendor_boot, hv)
        table == IF takes THEN parse_vendor_ramdisk_args(argv.vendor_ramdisk, argv.fragments)
                 ELSE [err |-> NoError, unknown |-> 0, names |-> {},
                       builder |-> [entries |-> <<>>, ramdisk_total_size |-> 0]]
        extra_args == IF takes THEN table.unknown + argv.extra
                      ELSE Len(argv.fragments) + argv.extra
        e == FirstErr(<<e1, table.err,
                        IF extra_args > 0 THEN "UnrecognizedArguments" ELSE NoError>>)
    IN  [err |-> e,
         args |-> [kernel |-> argv.kernel, ramdisk |-> argv.ramdisk, second |-> argv.second,
                   dtb |-> argv.dtb, recovery_dtbo |-> argv.recovery_dtbo,
                   cmdline |-> StrVal(argv.cmdline),
                   vendor_cmdline |-> StrVal(argv.vendor_cmdline),
                   base |-> base.v, kernel_offset |-> kernel_offset.v,
                   ramdisk_offset |-> ramdisk_offset.v, second_offset |-> second_offset.v,
                   dtb_offset |-> dtb_offset.v, tags_offset |-> tags_offset.v,
                   os_version |-> os_version.v, os_patch_level |-> os_patch_level.v,
                   board |-> StrVal(argv.board),
                   pagesize |-> IF pagesize_ok THEN NumToInt(pagesize.v) ELSE 0,
                   header_version |-> hv,
                   output |-> argv.output, vendor_boot |-> argv.vendor_boot,
                   vendor_ramdisk |-> argv.vendor_ramdisk,
                   vendor_bootconfig |-> argv.vendor_bootconfig,
                   vendor_ramdisk_total_size |-> table.builder.ramdisk_total_size,
                   vendor_ramdisk_table_entry_num |-> Len(table.builder.entries),
                   vendor_ramdisk_table_builder |-> table.builder]]

\* ------------------------------------------------------------ mkbootimg.py: headers

OpBegin(name) == [k |-> "begin", name |-> name]

Size(f) == IntToNum(filesize(f))

\* a write_header_v3 with three reserved words instead of four
write_header_v3_three_reserved(args) ==
    <<OpBegin("header"),
      OpS(8, encode(BOOT_MAGIC)),
      OpI(Size(args.kernel)),
      OpI(Size(args.ramdisk)),
      OpI(OsWord(args.os_version, args.os_patch_level)),
      OpI(IntToNum(BOOT_IMAGE_HEADER_V3_SIZE)),
      OpI(<<>>), OpI(<<>>), OpI(<<>>),
      OpI(IntToNum(args.header_version)),
      OpS(BOOT_V3_ARGS_SIZE, encode(args.cmdline)),
      OpPad(BOOT_IMAGE_HEADER_V3_PAGESIZE)>>

\* write_header_v3(args)
write_header_v3(args) ==
    <<OpBegin("header"),
      OpS(8, encode(BOOT_MAGIC)),
      OpI(Size(args.kernel)),
      OpI(Size(args.ramdisk)),
      OpI(OsWord(args.os_version, args.os_patch_level)),
      OpI(IntToNum(BOOT_IMAGE_HEADER_V3_SIZE)),
      OpI(<<>>), OpI(<<>>), OpI(<<>>), OpI(<<>>),
      OpI(IntToNum(args.header_version)),
      OpS(BOOT_V3_ARGS_SIZE, encode(args.cmdline)),
      OpPad(BOOT_IMAGE_HEADER_V3_PAGESIZE)>>

\* a write_header without the DTB check
DtbCheckNever(args) == <<>>

\* the DTB check of write_vendor_boot_header and write_header
DtbCheck(args) == IF filesize(args.dtb) = 0 THEN <<OpRaise("DTBEmpty")>> ELSE <<>>

\* write_vendor_boot_header(args)
write_vendor_boot_header(args) ==
    LET vendor_ramdisk_size == IF args.header_version > 3
                               THEN args.vendor_ramdisk_total_size
                               ELSE filesize(args.vendor_ramdisk)
        vendor_boot_header_size == IF args.header_version > 3
                                   THEN VENDOR_BOOT_IMAGE_HEADER_V4_SIZE
                                   ELSE VENDOR_BOOT_IMAGE_HEADER_V3_SIZE
        vendor_ramdisk_table_size == args.vendor_ramdisk_table_entry_num
                                     * VENDOR_RAMDISK_TABLE_ENTRY_V4_SIZE
    IN  DtbCheck(args)
        \o <<OpBegin("header"),
             OpS(8, encode(VENDOR_BOOT_MAGIC)),
             OpI(IntToNum(args.header_version)),
             OpI(IntToNum(args.pagesize)),
             OpI(NumAdd(args.base, args.kernel_offset)),
             OpI(NumAdd(args.base, args.ramdisk_offset)),
             OpI(IntToNum(vendor_ramdisk_size)),
             OpS(VENDOR_BOOT_ARGS_SIZE, encode(args.vendor_cmdline)),
             OpI(NumAdd(args.base, args.tags_offset)),
             OpS(BOOT_NAME_SIZE, encode(args.board)),
             OpI(IntToNum(vendor_boot_header_size)),
             OpI(Size(args.dtb)),
             OpQ(NumAdd(args.base, args.dtb_offset))>>
        \o (IF args.header_version > 3
            THEN <<OpI(IntToNum(vendor_ramdisk_table_size)),
                   OpI(IntToNum(args.vendor_ramdisk_table_entry_num)),
                   OpI(IntToNum(VENDOR_RAMDISK_TABLE_ENTRY_V4_SIZE)),
                   OpI(Size(args.vendor_bootconfig))>>
            ELSE <<>>)
        \o <<OpPad(args.pagesize)>>

\* args.cmdline[:512] and args.cmdline[512:] of write_header
CmdlineFirst(cmdline) == Take(cmdline, BOOT_ARGS_SIZE)

CmdlineExtra(cmdline) == Drop(cmdline, BOOT_ARGS_SIZE)

\* a write_header without the version check
HeaderVersionAny(header_version) == TRUE

\* the version check at the head of write_header
HeaderVersionSupported(header_version) == ~(header_version > 4)

\* a write_header that stores the address of an empty segment too
load_address_always(f, base, offset) == NumAdd(base, offset)

\* ramdisk_load_address and second_load_address of write_header
load_address(f, base, offset) == IF filesize(f) > 0 THEN NumAdd(base, offset) ELSE <<>>

\* write_header(args)
write_header(args) ==
    IF ~HeaderVersionSupported(args.header_version) THEN <<OpRaise("NotSupported")>>
    ELSE IF args.header_version \in {3, 4} THEN write_header_v3(args)
    ELSE
    LET ramdisk_load_address == load_address(args.ramdisk, args.base, args.ramdisk_offset)
        second_load_address == load_address(args.second, args.base, args.second_offset)
        sha == update_sha(args.kernel) \o update_sha(args.ramdisk) \o update_sha(args.second)
               \o (IF args.header_version > 0 THEN update_sha(args.recovery_dtbo) ELSE <<>>)
               \o (IF args.header_version > 1 THEN update_sha(args.dtb) ELSE <<>>)
    IN  <<OpBegin("header"),
          OpS(8, encode(BOOT_MAGIC)),
          OpI(Size(args.kernel)),
          OpI(NumAdd(args.base, args.kernel_offset)),
          OpI(Size(args.ramdisk)),
          OpI(ramdisk_load_address),
          OpI(Size(args.second)),
          OpI(second_load_address),
          OpI(NumAdd(args.base, args.tags_offset)),
          OpI(IntToNum(args.pagesize)),
          OpI(IntToNum(args.header_version)),
          OpI(OsWord(args.os_version, args.os_patch_level)),
          OpS(BOOT_NAME_SIZE, encode(args.board)),
          OpS(BOOT_ARGS_SIZE, encode(CmdlineFirst(args.cmdline))),
          [k |-> "sha", in |-> sha],
          OpS(BOOT_EXTRA_ARGS_SIZE, encode(CmdlineExtra(args.cmdline)))>>
        \o (IF args.header_version > 0
            THEN IF args.recovery_dtbo # None
                 THEN <<OpI(Size(args.recovery_dtbo)),
                        OpQ(IntToNum(get_recovery_dtbo_offset(args)))>>
                 ELSE <<OpI(<<>>), OpQ(<<>>)>>
            ELSE <<>>)
        \o (IF args.header_version = 1 THEN <<OpI(IntToNum(BOOT_IMAGE_HEADER_V1_SIZE))>>
            ELSE IF args.header_version = 2 THEN <<OpI(IntToNum(BOOT_IMAGE_HEADER_V2_SIZE))>>
            ELSE <<>>)
        \o (IF args.header_version > 1
            THEN DtbCheck(args)
                 \o <<OpI(Size(args.dtb)), OpQ(NumAdd(args.base, args.dtb_offset))>>
            ELSE <<>>)
        \o <<OpPad(args.pagesize)>>

\* ------------------------------------------------------------ mkbootimg.py: data

\* write_data(args, pagesize)
write_data(args, pagesize) ==
    write_padded_file("kernel", args.kernel, pagesize)
    \o write_padded_file("ramdisk", args.ramdisk, pagesize)
    \o write_padded_file("second", args.second, pagesize)
    \o (IF args.header_version > 0 /\ args.header_version < 3
        THEN write_padded_file("recovery_dtbo", args.recovery_dtbo, pagesize) ELSE <<>>)
    \o (IF args.header_version = 2
        THEN write_padded_file("dtb", args.dtb, pagesize) ELSE <<>>)

\* a main() that hands --pagesize to write_data for every version
DataPageSizeOfArgs(args) == args.pagesize

\* the page size main() hands to write_data
DataPageSize(args) ==
    IF args.header_version > 2 THEN BOOT_IMAGE_HEADER_V3_PAGESIZE ELSE args.pagesize

\* VendorRamdiskTableBuilder.write_ramdisks_padded(fout, alignment)
write_ramdisks_padded(builder, alignment) ==
    <<OpBegin("vendor_ramdisk")>>
    \o [i \in 1..Len(builder.entries) |->
          [k |-> "data", name |-> "fragment", file |-> builder.entries[i].ramdisk_path]]
    \o <<OpPad(alignment)>>

\* the writes of one entry of write_entries_padded
EntryOps(entry) ==
    <<OpI(IntToNum(entry.ramdisk_size)),
      OpI(IntToNum(entry.ramdisk_offset)),
      OpI(entry.ramdisk_type),
      OpS(VENDOR_RAMDISK_NAME_SIZE, encode(entry.ramdisk_name))>>
    \o [i \in 1..Len(entry.board_id) |-> OpI(entry.board_id[i])]

RECURSIVE EntriesOps(_)
EntriesOps(entries) ==
    IF entries = <<>> THEN <<>> ELSE EntryOps(entries[1]) \o EntriesOps(Tail(entries))

\* VendorRamdiskTableBuilder.write_entries_padded(fout, alignment)
write_entries_padded(builder, alignment) ==
    <<OpBegin("vendor_ramdisk_table")>> \o EntriesOps(builder.entries) \o <<OpPad(alignment)>>

\* write_vendor_boot_data(args)
write_vendor_boot_data(args) ==
    IF args.header_version > 3
    THEN write_ramdisks_padded(args.vendor_ramdisk_table_builder, args.pagesize)
         \o write_padded_file("dtb", args.dtb, args.pagesize)
         \o write_entries_padded(args.vendor_ramdisk_table_builder, args.pagesize)
         \o write_padded_file("vendor_bootconfig", args.vendor_bootconfig, args.pagesize)
    ELSE write_padded_file("vendor_ramdisk", args.vendor_ramdisk, args.pagesize)
         \o write_padded_file("dtb", args.dtb, args.pagesize)

\* ------------------------------------------------------------ mkbootimg.py: main

\* the checks of main() before write_vendor_boot_header
VendorBootVersionOk(header_version) == header_version \in {3, 4}

\* a main() without the check of --vendor_ramdisk
VendorRamdiskAny(args) == TRUE

VendorRamdiskOk(args) == ~(args.header_version = 3 /\ args.vendor_ramdisk = None)

VendorBootChecks(args) ==
    IF ~VendorBootVersionOk(args.header_version)
    THEN <<OpRaise("VendorBootNotCompatible")>>
    ELSE IF ~VendorRamdiskOk(args) THEN <<OpRaise("VendorRamdiskMissing")>>
    ELSE <<>>

\* a main() without the check of --second
SecondCompatibleAny(args) == TRUE

\* the check of main() before write_header
SecondCompatible(args) == ~(args.second # None /\ args.header_version > 2)

SecondCheck(args) ==
    IF ~SecondCompatible(args) THEN <<OpRaise("SecondNotCompatible")>> ELSE <<>>

\* an output file just opened by FileType('wb'): created, nothing written
Opened == [f |-> <<>>, err |-> NoError, segs |-> <<>>]

\* a file that was not created
NoFile == [exists |-> FALSE, f |-> <<>>, segs |-> <<>>]

Created(st) == [exists |-> TRUE, f |-> st.f, segs |-> st.segs]

\* ------------------------------------------------------------ unpack_bootimg.py: reading

\* what a read returns where the file holds no field of the kind read
BadNum == <<-1>>

BadBytes(n) == << <<-1, n>> >>

\* the position of every chunk of f
Starts(f) == [i \in 1..Len(f) |-> Tell(SubSeq(f, 1, i - 1))]

\* open(args.boot_img, 'rb'): the chunks of the file and where each starts
OpenImage(f) == [chunks |-> f, starts |-> Starts(f)]

\* the index of the chunk of image that starts at off, 0 when there is none
ChunkAt(image, off) ==
    IF \E i \in 1..Len(image.chunks) : image.starts[i] = off
    THEN CHOOSE i \in 1..Len(image.chunks) : image.starts[i] = off
    ELSE 0

\* unpack('I', f.read(4))[0] at position off; bytes of padding read as 0
ReadI(image, off) ==
    LET i == ChunkAt(image, off)
    IN  IF i > 0 /\ image.chunks[i].k = "I" THEN image.chunks[i].v
        ELSE IF \E j \in 1..Len(image.chunks) :
                    /\ image.chunks[j].k = "x"
                    /\ image.starts[j] <= off
                    /\ off + 4 <= image.starts[j] + image.chunks[j].n
        THEN <<>>
        ELSE BadNum

\* unpack('Q', f.read(8))[0] at position off
ReadQ(image, off) ==
    LET i == ChunkAt(image, off)
    IN  IF i > 0 /\ image.chunks[i].k = "Q" THEN image.chunks[i].v ELSE BadNum

\* unpack('<n>s', f.read(n))[0] at position off
ReadS(image, off, n) ==
    LET i == ChunkAt(image, off)
    IN  IF i > 0 /\ image.chunks[i].k = "s" /\ image.chunks[i].n = n
        THEN image.chunks[i].b
        ELSE BadBytes(n)

\* the part of chunk c, which starts at position s, that lies in [lo, hi)
Clip(c, s, lo, hi) ==
    LET from == IF lo > s THEN lo - s ELSE 0
        to == IF hi < s + ChunkSize(c) THEN hi - s ELSE ChunkSize(c)
    IN  IF from = 0 /\ to = ChunkSize(c) THEN c
        ELSE IF c.k = "d" THEN [k |-> "d", id |-> c.id, from |-> c.from + from, n |-> to - from]
        ELSE IF c.k = "x" THEN [k |-> "x", n |-> to - from]
        ELSE [k |-> "part", of |-> c, from |-> from, n |-> to - from]

\* bootimage.seek(offset); bootimage.read(size): the bytes in
\* [offset, offset + size) that the file has
Slice(image, offset, size) ==
    LET f == image.chunks
        in == {i \in 1..Len(f) : /\ image.starts[i] < offset + size
                                 /\ image.starts[i] + ChunkSize(f[i]) > offset}
        first == CHOOSE i \in in : \A j \in in : i <= j
    IN  IF in = {} THEN <<>>
        ELSE [j \in 1..Cardinality(in) |->
                Clip(f[first + j - 1], image.starts[first + j - 1], offset, offset + size)]

\* extract_image(offset, size, bootimage, extracted_image_name): the file written
extract_image(offset, size, bootimage, name, idx) ==
    [name |-> name, idx |-> idx, offset |-> offset, size |-> size,
     data |-> Slice(bootimage, offset, size)]

\* cstr(s)
cstr(s) == Take(s, FirstNul(s))

\* the exception of b.decode(), if any
DecodeErr(b) == IF Decodable(b) THEN NoError ELSE "UnicodeDecodeError"

\* cstr(b.decode()), where b.decode() returns
Text(b) == IF Decodable(b) THEN cstr(decode(b)) ELSE <<>>

\* value >> 11 and value & ((1 << 11) - 1) of a 32-bit value
HighDigits(value) == IF Len(value) <= 2 THEN <<>> ELSE SubSeq(value, 1, Len(value) - 2)

LowDigits(value) ==
    IF Len(value) <= 2 THEN value ELSE SubSeq(value, Len(value) - 1, Len(value))

OsVersionOf(value) == NumToInt(HighDigits(value)) \div 8

OsPatchLevelOf(value) == (NumToInt(HighDigits(value)) % 8) * 256 + NumToInt(LowDigits(value))

\* format_os_version(os_version)
format_os_version(os_version) ==
    LET va == os_version \div 16384
        vb == (os_version \div 128) % 128
        vc == os_version % 128
    IN  DecText(va, 1) \o <<46>> \o DecText(vb, 1) \o <<46>> \o DecText(vc, 1)

\* format_os_patch_level(os_patch_level)
format_os_patch_level(os_patch_level) ==
    LET yy == (os_patch_level \div 16) + 2000
        mm == os_patch_level % 16
    IN  DecText(yy, 4) \o <<45>> \o DecText(mm, 2)

\* get_boot_image_v3_args(header_version, os_version_patch_level, cmdline)
get_boot_image_v3_args(header_version, os_version_patch_level, cmdline) ==
    [header_version |-> DecText(header_version, 1),
     os_version |-> format_os_version(OsVersionOf(os_version_patch_level)),
     os_patch_level |-> format_os_patch_level(OsPatchLevelOf(os_version_patch_level)),
     cmdline |-> cmdline]

\* a get_vendor_boot_image_v3_args that writes dtb_offset as a 32-bit value
get_vendor_boot_image_v3_args_dtb32(header_version, page_size, kernel_address, ramdisk_address, cmdline, tags_load_address, product_name, dtb_load_address) ==
    [header_version |-> DecText(header_version, 1),
     pagesize |-> HexText(page_size, 8),
     base |-> HexText(<<>>, 8),
     kernel_offset |-> HexText(kernel_address, 8),
     ramdisk_offset |-> HexText(ramdisk_address, 8),
     tags_offset |-> HexText(tags_load_address, 8),
     dtb_offset |-> HexText(dtb_load_address, 8),
     vendor_cmdline |-> cmdline,
     board |-> product_name]

\* get_vendor_boot_image_v3_args(...)
get_vendor_boot_image_v3_args(header_version, page_size, kernel_address, ramdisk_address, cmdline, tags_load_address, product_name, dtb_load_address) ==
    [header_version |-> DecText(header_version, 1),
     pagesize |-> HexText(page_size, 8),
     base |-> HexText(<<>>, 8),
     kernel_offset |-> HexText(kernel_address, 8),
     ramdisk_offset |-> HexText(ramdisk_address, 8),
     tags_offset |-> HexText(tags_load_address, 8),
     dtb_offset |-> HexText(dtb_load_address, 16),
     vendor_cmdline |-> cmdline,
     board |-> product_name]

\* ------------------------------------------------------------ unpack_bootimg.py: unpack

\* what one run of unpack_bootimg leaves: the files in --out, the
\* mkbootimg_args.json among them, and what it printed
NotDecoded ==
    [err |-> NoError, reader |-> "none", version |-> 0, cmdline |-> <<>>,
     extra_cmdline |-> <<>>, files |-> <<>>, json |-> None]

\* an unpack_bootimage that saves mkbootimg_args.json for every version
SavesArgsAlways(version) == TRUE

\* whether unpack_bootimage saves mkbootimg_args.json: not in the branch of
\* version < 3
SavesArgs(version) == ~(version < 3)

\* an unpack_bootimage that extracts second, recovery_dtbo and dtb always
IsExtractedAlways(size) == TRUE

\* the test of unpack_bootimage for second, recovery_dtbo and dtb
IsExtracted(size) == size > 0

\* an unpack_bootimage that reads version 2 as a version 3 header
IsLegacyBelowTwo(version) == version < 2

\* the branch of unpack_bootimage for the legacy header
IsLegacy(version) == version < 3

\* unpack_bootimage(args)
unpack_bootimage(f) ==
    LET info == [j \in 1..9 |-> ReadI(f, 8 + 4 * (j - 1))]
        version == NumToInt(info[9])
        legacy == IsLegacy(version)
        \* the position after the reads of the legacy fields up to extra_cmdline
        legacy_end == 8 + 9 * 4 + 4 + BOOT_NAME_SIZE + BOOT_ARGS_SIZE + 32
                      + BOOT_EXTRA_ARGS_SIZE
        product_field == ReadS(f, 8 + 9 * 4 + 4, BOOT_NAME_SIZE)
        cmdline_field == IF legacy THEN ReadS(f, 8 + 9 * 4 + 4 + BOOT_NAME_SIZE, BOOT_ARGS_SIZE)
                         ELSE ReadS(f, 8 + 9 * 4, BOOT_V3_ARGS_SIZE)
        extra_field == ReadS(f, legacy_end - BOOT_EXTRA_ARGS_SIZE, BOOT_EXTRA_ARGS_SIZE)
        cmdline == Text(cmdline_field)
        extra_cmdline == IF legacy THEN Text(extra_field) ELSE <<>>
        \* the decode() that fails first ends the run, before any extract_image
        json_err == IF legacy THEN FirstErr(<<DecodeErr(product_field), DecodeErr(cmdline_field)>>)
                    ELSE DecodeErr(cmdline_field)
        e == IF legacy THEN FirstErr(<<json_err, DecodeErr(extra_field)>>) ELSE json_err
        kernel_size == NumToInt(info[1])
        ramdisk_size == IF legacy THEN NumToInt(info[3]) ELSE NumToInt(info[2])
        second_size == IF legacy THEN NumToInt(info[5]) ELSE 0
        page_size == IF legacy THEN NumToInt(info[8]) ELSE BOOT_IMAGE_HEADER_V3_PAGESIZE
        recovery_dtbo_size == IF 0 < version /\ version < 3
                              THEN NumToInt(ReadI(f, legacy_end)) ELSE 0
        recovery_dtbo_offset == IF 0 < version /\ version < 3
                                THEN NumToInt(ReadQ(f, legacy_end + 4)) ELSE 0
        dtb_size == IF 1 < version /\ version < 3 THEN NumToInt(ReadI(f, legacy_end + 4 + 8 + 4)) ELSE 0
        num_header_pages == 1
        num_kernel_pages == get_number_of_pages(kernel_size, page_size)
        kernel_offset == page_size * num_header_pages
        num_ramdisk_pages == get_number_of_pages(ramdisk_size, page_size)
        ramdisk_offset == page_size * (num_header_pages + num_kernel_pages)
        second_offset == page_size * (num_header_pages + num_kernel_pages
                                      + num_ramdisk_pages)
        num_second_pages == get_number_of_pages(second_size, page_size)
        num_recovery_dtbo_pages == get_number_of_pages(recovery_dtbo_size, page_size)
        dtb_offset == page_size * (num_header_pages + num_kernel_pages + num_ramdisk_pages
                                   + num_second_pages + num_recovery_dtbo_pages)
        image_info_list ==
            <<extract_image(kernel_offset, kernel_size, f, "kernel", -1),
              extract_image(ramdisk_offset, ramdisk_size, f, "ramdisk", -1)>>
            \o (IF IsExtracted(second_size)
                THEN <<extract_image(second_offset, second_size, f, "second", -1)>>
                ELSE <<>>)
            \o (IF IsExtracted(recovery_dtbo_size)
                THEN <<extract_image(recovery_dtbo_offset, recovery_dtbo_size, f,
                                     "recovery_dtbo", -1)>>
                ELSE <<>>)
            \o (IF IsExtracted(dtb_size)
                THEN <<extract_image(dtb_offset, dtb_size, f, "dtb", -1)>>
                ELSE <<>>)
    IN  [err |-> e, reader |-> "boot", version |-> version, cmdline |-> cmdline,
         extra_cmdline |-> extra_cmdline,
         files |-> IF e # NoError THEN <<>> ELSE image_info_list,
         json |-> IF ~SavesArgs(version) \/ json_err # NoError THEN None
                  ELSE Some(get_boot_image_v3_args(version, info[3], cmdline))]

\* the entry of the vendor ramdisk table read at entry_offset
ReadEntry(f, entry_offset) ==
    [ramdisk_size |-> NumToInt(ReadI(f, entry_offset)),
     ramdisk_offset |-> NumToInt(ReadI(f, entry_offset + 4)),
     ramdisk_type |-> ReadI(f, entry_offset + 8),
     ramdisk_name |-> Text(ReadS(f, entry_offset + 12, VENDOR_RAMDISK_NAME_SIZE)),
     err |-> DecodeErr(ReadS(f, entry_offset + 12, VENDOR_RAMDISK_NAME_SIZE)),
     board_id |-> [i \in 1..VENDOR_RAMDISK_TABLE_ENTRY_BOARD_ID_SIZE |->
                     ReadI(f, entry_offset + 12 + VENDOR_RAMDISK_NAME_SIZE + 4 * (i - 1))]]

\* unpack_vendor_bootimage(args)
unpack_vendor_bootimage(f) ==
    LET header_version == NumToInt(ReadI(f, 8))
        page_size == ReadI(f, 12)
        kernel_address == ReadI(f, 16)
        ramdisk_address == ReadI(f, 20)
        ramdisk_size == NumToInt(ReadI(f, 24))
        cmdline_field == ReadS(f, 8 + 5 * 4, VENDOR_BOOT_ARGS_SIZE)
        cmdline == Text(cmdline_field)
        \* the positions after the reads of the command line and of the name
        cmdline_end == 8 + 5 * 4 + VENDOR_BOOT_ARGS_SIZE
        name_end == cmdline_end + 4 + BOOT_NAME_SIZE
        tags_load_address == ReadI(f, cmdline_end)
        product_field == ReadS(f, cmdline_end + 4, BOOT_NAME_SIZE)
        product_name == Text(product_field)
        json_err == FirstErr(<<DecodeErr(cmdline_field), DecodeErr(product_field)>>)
        header_size == NumToInt(ReadI(f, name_end))
        dtb_size == NumToInt(ReadI(f, name_end + 4))
        dtb_load_address == ReadQ(f, name_end + 4 + 4)
        ps == NumToInt(page_size)
        num_boot_header_pages == get_number_of_pages(header_size, ps)
        num_boot_ramdisk_pages == get_number_of_pages(ramdisk_size, ps)
        num_boot_dtb_pages == get_number_of_pages(dtb_size, ps)
        ramdisk_offset_base == ps * num_boot_header_pages
        vendor_ramdisk_table_entry_num == NumToInt(ReadI(f, name_end + 4 + 4 + 8 + 4))
        vendor_ramdisk_table_entry_size == NumToInt(ReadI(f, name_end + 4 + 4 + 8 + 4 + 4))
        vendor_ramdisk_table_offset ==
            ps * (num_boot_header_pages + num_boot_ramdisk_pages + num_boot_dtb_pages)
        entry(idx) == ReadEntry(f, vendor_ramdisk_table_offset
                                   + vendor_ramdisk_table_entry_size * idx)
        ramdisks ==
            IF header_version > 3
            THEN [i \in 1..vendor_ramdisk_table_entry_num |->
                    extract_image(ramdisk_offset_base + entry(i - 1).ramdisk_offset,
                                  entry(i - 1).ramdisk_size, f, "vendor_ramdisk", i - 1)]
            ELSE <<extract_image(ramdisk_offset_base, ramdisk_size, f, "vendor_ramdisk", -1)>>
        dtb_offset == ps * (num_boot_header_pages + num_boot_ramdisk_pages)
        \* the decode() that fails first ends the run, before any extract_image
        table_err == IF header_version > 3
                     THEN FirstErr([i \in 1..vendor_ramdisk_table_entry_num |->
                                      entry(i - 1).err])
                     ELSE NoError
        e == FirstErr(<<json_err, table_err>>)
    IN  [err |-> e, reader |-> "vendor", version |-> header_version,
         cmdline |-> cmdline, extra_cmdline |-> <<>>,
         files |-> IF e # NoError THEN <<>>
                   ELSE ramdisks \o <<extract_image(dtb_offset, dtb_size, f, "dtb", -1)>>,
         json |-> IF json_err # NoError THEN None
                  ELSE Some(get_vendor_boot_image_v3_args(
                              header_version, page_size, kernel_address, ramdisk_address,
                              cmdline, tags_load_address, product_name, dtb_load_address))]

\* unpack_image(args): the dispatch on the magic
unpack_image(bootimage) ==
    LET f == OpenImage(bootimage)
        boot_magic == ReadS(f, 0, 8)
    IN  IF boot_magic = BOOT_MAGIC THEN unpack_bootimage(f)
        ELSE IF boot_magic = VENDOR_BOOT_MAGIC THEN unpack_vendor_bootimage(f)
        ELSE NotDecoded

\* ------------------------------------------------------------ repack_bootimg.py

\* an extracted file as an input file: the bytes of a whole input file are
\* that file again, any other bytes are a file of their own (id 99)
AsFile(data) ==
    IF data = <<>> THEN [id |-> 0, size |-> 0]
    ELSE IF Len(data) = 1 /\ data[1].k = "d" /\ data[1].from = 0
    THEN [id |-> data[1].id, size |-> data[1].n]
    ELSE [id |-> 99, size |-> Tell(data)]

\* os.path.exists(os.path.join(self._bootimg_dir, img_name))
Exists(files, name) == \E i \in 1..Len(files) : files[i].name = name /\ files[i].idx = -1

Extracted(files, name) ==
    Some(AsFile(files[CHOOSE i \in 1..Len(files) :
                        files[i].name = name /\ files[i].idx = -1].data))

IntactArg(files, name) == IF Exists(files, name) THEN Extracted(files, name) ELSE None

\* a command line of mkbootimg with no option
NoArgs ==
    [kernel |-> None, ramdisk |-> None, second |-> None, dtb |-> None,
     recovery_dtbo |-> None, cmdline |-> None, vendor_cmdline |-> None,
     base |-> None, kernel_offset |-> None, ramdisk_offset |-> None,
     second_offset |-> None, dtb_offset |-> None, os_version |-> None,
     os_patch_level |-> None, tags_offset |-> None, board |-> None,
     pagesize |-> None, header_version |-> None, output |-> FALSE,
     vendor_boot |-> FALSE, vendor_ramdisk |-> None, vendor_bootconfig |-> None,
     fragments |-> <<>>, extra |-> 0]

\* '--' + argname, value for every entry of mkbootimg_args.json
previous_mkbootimg_args(json) ==
    IF "vendor_cmdline" \in DOMAIN json
    THEN [NoArgs EXCEPT !.header_version = Some(json.header_version),
                         !.pagesize = Some(json.pagesize),
                         !.base = Some(json.base),
                         !.kernel_offset = Some(json.kernel_offset),
                         !.ramdisk_offset = Some(json.ramdisk_offset),
                         !.tags_offset = Some(json.tags_offset),
                         !.dtb_offset = Some(json.dtb_offset),
                         !.vendor_cmdline = Some(json.vendor_cmdline),
                         !.board = Some(json.board)]
    ELSE [NoArgs EXCEPT !.header_version = Some(json.header_version),
                         !.os_version = Some(json.os_version),
                         !.os_patch_level = Some(json.os_patch_level),
                         !.cmdline = Some(json.cmdline)]

\* the option names of previous_mkbootimg_args in the order of the command
\* line: the order of mkbootimg_args.json, which is written with sorted keys
previous_mkbootimg_options(json) ==
    IF "vendor_cmdline" \in DOMAIN json
    THEN <<"base", "board", "dtb_offset", "header_version", "kernel_offset", "pagesize",
           "ramdisk_offset", "tags_offset", "vendor_cmdline">>
    ELSE <<"cmdline", "header_version", "os_patch_level", "os_version">>

\* self._intact_image_candidates
intact_image_candidates == <<"dtb", "kernel", "recovery_dtbo", "second">>

\* BootImage._unpack_bootimg and BootImage.repack_bootimg, the ramdisk given
\* back as it was extracted: the mkbootimg command line (cmd the value of
\* every option, order the options as they follow each other), or the error
repack_command(dec) ==
    LET files == dec.files
        IsIntact(name) == Exists(files, name)
        repack_intact_image_args == SelectSeq(intact_image_candidates, IsIntact)
        is_boot == Exists(files, "ramdisk")
        is_vendor == ~is_boot /\ Exists(files, "vendor_ramdisk")
        prev == previous_mkbootimg_args(dec.json[1])
        intact == [prev EXCEPT !.dtb = IntactArg(files, "dtb"),
                               !.kernel = IntactArg(files, "kernel"),
                               !.recovery_dtbo = IntactArg(files, "recovery_dtbo"),
                               !.second = IntactArg(files, "second")]
    IN  IF dec.err # NoError THEN [err |-> "CalledProcessError", cmd |-> NoArgs, order |-> <<>>]
        ELSE IF ~is_boot /\ ~is_vendor
        THEN [err |-> "RuntimeError", cmd |-> NoArgs, order |-> <<>>]
        ELSE IF dec.json = None
        THEN [err |-> "FileNotFoundError", cmd |-> NoArgs, order |-> <<>>]
        ELSE IF is_vendor
        THEN [err |-> NoError,
              cmd |-> [intact EXCEPT !.vendor_ramdisk = Extracted(files, "vendor_ramdisk"),
                                     !.vendor_boot = TRUE],
              order |-> previous_mkbootimg_options(dec.json[1]) \o repack_intact_image_args
                        \o <<"vendor_ramdisk", "vendor_boot">>]
        ELSE [err |-> NoError,
              cmd |-> [intact EXCEPT !.ramdisk = Extracted(files, "ramdisk"),
                                     !.output = TRUE],
              order |-> previous_mkbootimg_options(dec.json[1]) \o repack_intact_image_args
                        \o <<"ramdisk", "output">>]

\* a file that is no boot image: eight bytes that are no magic, and more
ForeignImage ==
    <<[k |-> "s", n |-> 8, b |-> TextBytes(<<71, 65, 82, 66, 65, 71, 69, 33>>)],
      [k |-> "x", n |-> 100]>>

\* ------------------------------------------------------------ gki/certify_bootimg.py

BOOT_SIGNATURE_SIZE == 16384

\* avbtool add_hash_footer leaves the image, then its vbmeta and footer in
\* n bytes that end the file; the footer holds the size of the image
AvbFooter(original_image_size, n) ==
    [k |-> "avb", n |-> n, original_image_size |-> original_image_size]

HasAvbFooter(f) == f # <<>> /\ f[Len(f)].k = "avb"

\* os.truncate(f, size)
truncate(f, size) == Slice(OpenImage(f), 0, size)

\* avbtool erase_footer --image f: the file cut to the size its footer
\* holds; the file as it is when it has no footer
erase_footer(f) ==
    IF HasAvbFooter(f) THEN truncate(f, f[Len(f)].original_image_size) ELSE f

\* avbtool info_image --image f returned 0: f ends with an AVB footer or
\* begins with a vbmeta image, as a certificate is
info_image(f) == HasAvbFooter(f) \/ (f # <<>> /\ f[1].k = "certs")

\* generate_gki_certificate(image, name, key): a vbmeta image of n bytes
Certificate(name, key, n) == [name |-> name, key |-> key, n |-> n]

\* get_kernel(boot_img), given what unpack_bootimg left: the read of the
\* file kernel
ReadKernel(unpacked) ==
    LET kernels == {i \in 1..Len(unpacked.files) : unpacked.files[i].name = "kernel"}
        kernel == unpacked.files[CHOOSE i \in kernels : TRUE]
    IN  IF unpacked.reader = "none" \/ unpacked.err # NoError
        THEN [err |-> "CalledProcessError", kernel_bytes |-> <<>>]
        ELSE IF kernels = {} THEN [err |-> "FileNotFoundError", kernel_bytes |-> <<>>]
        ELSE IF ~(kernel.size > 0) THEN [err |-> "AssertionError", kernel_bytes |-> <<>>]
        ELSE [err |-> NoError, kernel_bytes |-> kernel.data]

\* an add_certificate that rejects certificates that fill the 16K
ExceedsOrFillsSignatureSize(n) == n >= BOOT_SIGNATURE_SIZE

\* whether add_certificate rejects boot_signature_bytes of this length
ExceedsSignatureSize(n) == n > BOOT_SIGNATURE_SIZE

\* get_kernel(boot_img)
get_kernel(boot_img) == ReadKernel(unpack_image(boot_img))

\* add_certificate(boot_img, algorithm, key, extra_args), given the kernel
\* that get_kernel returns and the two certificates that
\* generate_gki_certificate returns
add_certificate(boot_img, kernel, boot, generic_kernel) ==
    LET boot_signature_bytes ==
            [k |-> "certs", n |-> boot.n + generic_kernel.n, certs |-> <<boot, generic_kernel>>]
        padding == [k |-> "x", n |-> BOOT_SIGNATURE_SIZE - boot_signature_bytes.n]
    IN  IF kernel.err # NoError THEN [f |-> boot_img, err |-> kernel.err]
        ELSE IF ExceedsSignatureSize(boot_signature_bytes.n)
        THEN [f |-> boot_img, err |-> "ValueError"]
        ELSE [f |-> AppendChunk(Append(boot_img, boot_signature_bytes), padding),
              err |-> NoError]

\* an erase_certificate_and_avb_footer that does not ask avbtool
ErasesSignatureAlways(has_boot_signature) == TRUE

\* whether erase_certificate_and_avb_footer cuts the last 16K off
ErasesSignature(has_boot_signature) == has_boot_signature

\* erase_certificate_and_avb_footer(boot_img)
erase_certificate_and_avb_footer(boot_img) ==
    LET erased == erase_footer(boot_img)
        size == Tell(erased)
        boot_signature == Slice(OpenImage(erased), size - BOOT_SIGNATURE_SIZE,
                                BOOT_SIGNATURE_SIZE)
        has_boot_signature == info_image(boot_signature)
        new_file_size == size - BOOT_SIGNATURE_SIZE
    IN  IF ~(size > 0) THEN [f |-> erased, err |-> "AssertionError"]
        ELSE IF size <= BOOT_SIGNATURE_SIZE THEN [f |-> erased, err |-> NoError]
        ELSE IF ErasesSignature(has_boot_signature)
        THEN [f |-> truncate(erased, new_file_size),
              err |-> IF new_file_size > 0 THEN NoError ELSE "AssertionError"]
        ELSE [f |-> erased, err |-> NoError]

\* a get_avb_image_size that finds no footer
get_avb_image_size_without_footer(image) == 0

\* get_avb_image_size(image)
get_avb_image_size(image) == IF info_image(image) THEN Tell(image) ELSE 0

\* avbtool add_hash_footer --image f: with --partition_size the file takes
\* that size, if image, vbmeta and footer (room bytes) fit in it; with
\* --dynamic_partition_size the size they need
add_hash_footer(f, partition_size, room) ==
    IF partition_size = 0
    THEN [f |-> Append(f, AvbFooter(Tell(f), room)), err |-> NoError]
    ELSE IF Tell(f) + room <= partition_size
    THEN [f |-> Append(f, AvbFooter(Tell(f), partition_size - Tell(f))), err |-> NoError]
    ELSE [f |-> f, err |-> "CalledProcessError"]

\* add_avb_footer(image, partition_size)
add_avb_footer(image, partition_size, room) == add_hash_footer(image, partition_size, room)

\* ------------------------------------------------------------ inputs

\* header versions 0..MaxHeaderVersion are requested
MaxHeaderVersion == 5

\* at most MaxFragments --vendor_ramdisk_fragment groups are given
MaxFragments == 2

File(id, size) == Some([id |-> id, size |-> size])

\* sizes of the input files by role (kernel, ramdisk, second, recovery_dtbo,
\* dtb, vendor_ramdisk, vendor_bootconfig, two fragments): whole pages,
\* sizes that are no multiple of a page, empty files
SizeProfiles ==
    {<<4096, 4096, 4096, 4096, 4096, 4096, 4096, 4096, 8192>>,
     <<1, 4097, 2049, 16385, 8191, 6000, 5, 4095, 2>>,
     <<0, 0, 0, 0, 0, 0, 0, 0, 0>>}

NonEmptyProfiles == {p \in SizeProfiles : p[1] > 0}

Present(b, id, p) == IF b THEN File(id, p[id]) ELSE None

\* literals of --pagesize: not given (2048), decimal, hexadecimal
PageSizeArgs ==
    {None, Some(DecText(4096, 1)), Some(HexText(IntToNum(8192), 8)), Some(DecText(16384, 1))}

test_cmdline == TextBytes(<<116, 101, 115, 116>>)

\* command lines around the sizes of the fields
Cmdlines ==
    {test_cmdline,
     Rep(120, BOOT_ARGS_SIZE - 1),
     Rep(120, BOOT_ARGS_SIZE),
     Cat(Rep(120, BOOT_ARGS_SIZE - 1), Rep(121, BOOT_EXTRA_ARGS_SIZE - 1)),
     Cat(Rep(120, BOOT_ARGS_SIZE - 1), Rep(121, BOOT_EXTRA_ARGS_SIZE)),
     Cat(Rep(120, BOOT_ARGS_SIZE), Rep(121, BOOT_EXTRA_ARGS_SIZE - 1)),
     Cat(Rep(120, BOOT_ARGS_SIZE), Rep(121, BOOT_EXTRA_ARGS_SIZE)),
     Cat(Rep(120, BOOT_ARGS_SIZE), Rep(121, BOOT_EXTRA_ARGS_SIZE + 1))}

VendorCmdlines ==
    {test_cmdline,
     Rep(120, VENDOR_BOOT_ARGS_SIZE - 1),
     Rep(120, VENDOR_BOOT_ARGS_SIZE),
     Rep(120, VENDOR_BOOT_ARGS_SIZE + 1)}

Boards == {test_cmdline, Rep(97, BOOT_NAME_SIZE), Rep(97, BOOT_NAME_SIZE + 1)}

\* --os_version and --os_patch_level literals: 11.0.0, 12, 127.127.127,
\* 128.0.0; 2021-01, 2127-12, 2021-13
OsVersions ==
    {None, Some(<<49, 49, 46, 48, 46, 48>>), Some(<<49, 50>>),
     Some(<<49, 50, 55, 46, 49, 50, 55, 46, 49, 50, 55>>),
     Some(<<49, 50, 56, 46, 48, 46, 48>>)}

OsPatchLevels ==
    {None, Some(<<50, 48, 50, 49, 45, 48, 49>>), Some(<<50, 49, 50, 55, 45, 49, 50>>),
     Some(<<50, 48, 50, 49, 45, 49, 51>>)}

\* --base literals: not given, 0, 0xffff0000 (the default offsets overflow)
Bases == {None, Some(<<48>>), Some(HexText(<<15, 15, 15, 15, 0, 0, 0, 0>>, 8))}

RAMDISK1 == TextBytes(<<82, 65, 77, 68, 73, 83, 75, 49>>)

RAMDISK2 == TextBytes(<<82, 65, 77, 68, 73, 83, 75, 50>>)

Group(ty, name, ids, id, p) ==
    [ramdisk_type |-> ty, ramdisk_name |-> Some(name), board_id |-> ids,
     vendor_ramdisk_fragment |-> [id |-> id, size |-> p[id]], unknown |-> 0]

\* the option groups ending in --vendor_ramdisk_fragment
FragmentLists(p) ==
    LET g1 == Group(Some(<<112, 108, 97, 116, 102, 111, 114, 109>>), RAMDISK1, {}, 8, p)
        g2 == Group(Some(<<100, 108, 107, 109>>), RAMDISK2,
                    {<<0, HexText(<<12, 0, 15, 15, 14, 14>>, 1)>>,
                     <<15, HexText(<<1, 5, 1, 5, 1, 5, 1, 5>>, 1)>>}, 9, p)
        g3 == Group(None, RAMDISK1, {}, 9, p)
        g0 == Group(None, <<>>, {}, 8, p)
        \* names of 16 two-byte characters and a letter: 17 characters, 33 bytes
        g4 == Group(None, Cat(Rep(233, 16), Rep(97, 1)), {}, 8, p)
        g5 == Group(None, Cat(Rep(233, 16), Rep(98, 1)), {}, 9, p)
        g6 == Group(None, Cat(Rep(97, 1), Rep(233, 16)), {}, 8, p)
        \* names of 32 and of 33 letters
        g7 == Group(None, Rep(110, VENDOR_RAMDISK_NAME_SIZE), {}, 8, p)
        g8 == Group(None, Rep(110, VENDOR_RAMDISK_NAME_SIZE + 1), {}, 8, p)
        all == {<<>>, <<g1>>, <<g0>>, <<g1, g2>>, <<g1, g3>>, <<g1, g2, g3>>,
                <<g4, g5>>, <<g6>>, <<g7>>, <<g8>>}
    IN  {l \in all : Len(l) <= MaxFragments}

Versions == {Some(DecText(v, 1)) : v \in 0..MaxHeaderVersion}

\* boot images: every version, page size and set of segments
BootLayouts ==
    {[NoArgs EXCEPT !.output = TRUE, !.header_version = hv, !.pagesize = ps,
                    !.kernel = Present(k, 1, p), !.ramdisk = Present(r, 2, p),
                    !.second = Present(s2, 3, p), !.recovery_dtbo = Present(rd, 4, p),
                    !.dtb = Present(d, 5, p)] :
        hv \in Versions, ps \in PageSizeArgs, p \in NonEmptyProfiles,
        k \in BOOLEAN, r \in BOOLEAN, s2 \in BOOLEAN, rd \in BOOLEAN, d \in BOOLEAN}
    \cup
    {[NoArgs EXCEPT !.output = TRUE, !.header_version = hv,
                    !.kernel = Present(TRUE, 1, p), !.ramdisk = Present(TRUE, 2, p),
                    !.second = Present(s2, 3, p), !.recovery_dtbo = Present(TRUE, 4, p),
                    !.dtb = Present(TRUE, 5, p)] :
        hv \in Versions, p \in SizeProfiles \ NonEmptyProfiles, s2 \in BOOLEAN}

\* vendor boot images
VendorLayouts ==
    UNION {
    {[NoArgs EXCEPT !.vendor_boot = TRUE, !.header_version = hv, !.pagesize = ps,
                    !.dtb = Present(d, 5, p), !.vendor_ramdisk = Present(vr, 6, p),
                    !.vendor_bootconfig = Present(bc, 7, p), !.fragments = fr] :
        hv \in Versions, ps \in PageSizeArgs,
        d \in BOOLEAN, vr \in BOOLEAN, bc \in BOOLEAN, fr \in FragmentLists(p)} :
    p \in SizeProfiles}

\* both outputs, and none
BothLayouts ==
    {[NoArgs EXCEPT !.vendor_boot = vb, !.output = vb, !.header_version = hv,
                    !.kernel = Present(TRUE, 1, p), !.ramdisk = Present(TRUE, 2, p),
                    !.second = Present(s2, 3, p), !.dtb = Present(d, 5, p),
                    !.vendor_ramdisk = Present(vr, 6, p)] :
        vb \in BOOLEAN, hv \in Versions, p \in NonEmptyProfiles,
        s2 \in BOOLEAN, d \in BOOLEAN, vr \in BOOLEAN}

\* command lines and board names
TextInputs ==
    {[NoArgs EXCEPT !.output = TRUE, !.header_version = hv, !.cmdline = Some(c),
                    !.kernel = File(1, 4096), !.ramdisk = File(2, 4096),
                    !.dtb = File(5, 4096)] :
        hv \in Versions, c \in Cmdlines}
    \cup
    {[NoArgs EXCEPT !.output = TRUE, !.header_version = hv, !.board = Some(b),
                    !.kernel = File(1, 4096), !.ramdisk = File(2, 4096),
                    !.dtb = File(5, 4096)] :
        hv \in Versions, b \in Boards}
    \cup
    {[NoArgs EXCEPT !.vendor_boot = TRUE, !.output = o, !.header_version = hv,
                    !.vendor_cmdline = Some(c), !.board = Some(b),
                    !.vendor_ramdisk = File(6, 4096), !.dtb = File(5, 4096)] :
        hv \in Versions, c \in VendorCmdlines, b \in Boards, o \in BOOLEAN}

\* os versions and addresses
NumberInputs ==
    {[NoArgs EXCEPT !.output = o, !.vendor_boot = ~o, !.header_version = hv,
                    !.os_version = ov, !.os_patch_level = opl, !.base = b,
                    !.cmdline = Some(test_cmdline),
                    !.kernel = File(1, 4096), !.ramdisk = File(2, 4096),
                    !.vendor_ramdisk = File(6, 4096), !.dtb = File(5, 4096)] :
        o \in BOOLEAN, hv \in Versions, ov \in OsVersions, opl \in OsPatchLevels,
        b \in Bases}

\* literals of the offsets: the largest value of 32 bits in hexadecimal,
\* 2147483647 in decimal, the largest of 64 bits and the first that has 65
Max32Hex == Some(HexText(<<15, 15, 15, 15, 15, 15, 15, 15>>, 8))

BigDec == Some(<<50, 49, 52, 55, 52, 56, 51, 54, 52, 55>>)

Max64Hex == Some(HexText([i \in 1..16 |-> IF i <= 8 THEN 15 ELSE 14], 16))

Over64Hex == Some(HexText(<<1>> \o [i \in 1..16 |-> 0], 16))

\* addresses up to the width of their fields, with --base 0
AddressInputs ==
    {[NoArgs EXCEPT !.output = o, !.vendor_boot = ~o, !.header_version = hv,
                    !.base = Some(<<48>>),
                    !.kernel_offset = ko, !.ramdisk_offset = ro, !.tags_offset = ko,
                    !.dtb_offset = dto,
                    !.kernel = File(1, 4096), !.ramdisk = File(2, 4096),
                    !.vendor_ramdisk = File(6, 4096), !.dtb = File(5, 4096)] :
        o \in BOOLEAN, hv \in Versions, ko \in {None, Max32Hex, Some(<<48>>)},
        ro \in {None, BigDec}, dto \in {None, Max64Hex, Over64Hex}}
    \cup
    \* a base of 0xffff0000, under which the default ramdisk and second offsets
    \* overflow 32 bits, with and without ramdisk and second
    {[NoArgs EXCEPT !.output = TRUE, !.header_version = hv,
                    !.base = Some(HexText(<<15, 15, 15, 15, 0, 0, 0, 0>>, 8)),
                    !.kernel_offset = ko,
                    !.kernel = File(1, 4096), !.ramdisk = r, !.second = s2] :
        hv \in Versions, ko \in {None, Max32Hex},
        r \in {None, File(2, 0), File(2, 4096)}, s2 \in {None, File(3, 4096)}}

\* command lines with arguments that no parser knows: extra of them after
\* the last option group (anywhere, when there is no group), unknown of
\* them inside the first group
UnknownInputs ==
    {[NoArgs EXCEPT !.vendor_boot = vb, !.output = o, !.header_version = hv,
                    !.kernel = File(1, 4096), !.ramdisk = File(2, 4096),
                    !.dtb = File(5, 4096), !.vendor_ramdisk = File(6, 4096),
                    !.fragments = IF fr = <<>> THEN fr
                                  ELSE [fr EXCEPT ![1].unknown = unknown],
                    !.extra = extra] :
        vb \in BOOLEAN, o \in BOOLEAN, hv \in {Some(DecText(3, 1)), Some(DecText(4, 1))},
        extra \in {0, 1}, unknown \in {0, 1},
        fr \in {l \in FragmentLists([i \in 1..9 |-> 4096]) : Len(l) <= 2}}

Inputs ==
    BootLayouts \cup VendorLayouts \cup BothLayouts \cup TextInputs \cup NumberInputs
    \cup AddressInputs \cup UnknownInputs

\* ------------------------------------------------------------ state

VARIABLES
    argv,          \* the command line of mkbootimg
    pc,            \* where main() of mkbootimg is, then where repack_bootimg is
    args,          \* the Namespace parse_cmdline returned
    err,           \* the exception that ended mkbootimg
    output,        \* the file of --output
    vendor_boot,   \* the file of --vendor_boot
    boot_img,      \* the file given to unpack_bootimg
    decoded,       \* what unpack_bootimg left
    original,      \* the image repack_bootimg was given, once it runs mkbootimg
    gki            \* certify_bootimg: where main() is, its files and its exception

vars == <<argv, pc, args, err, output, vendor_boot, boot_img, decoded, original, gki>>

\* before repack_bootimg runs mkbootimg
NotRepacked == [repacking |-> FALSE, f |-> <<>>, order |-> <<>>]

\* before certify_bootimg runs: boot_img and output are the files of
\* --boot_img and --output, before is --output as the last step found it,
\* at the call main() made last, certs the certificates of the last
\* add_certificate, runs the number of runs of certify_bootimg that have ended
NotCertifying ==
    [pc |-> "idle", at |-> "none", boot_img |-> <<>>, output |-> <<>>, before |-> <<>>,
     certs |-> <<>>, err |-> NoError, runs |-> 0]

Init ==
    /\ argv \in Inputs
    /\ pc = "start"
    /\ args = parse_cmdline(NoArgs).args
    /\ err = NoError
    /\ output = NoFile
    /\ vendor_boot = NoFile
    /\ boot_img = "none"
    /\ decoded = NotDecoded
    /\ original = NotRepacked
    /\ gki = NotCertifying

\* where main() goes after parse_cmdline and after the vendor boot image
AfterParse(ns) ==
    IF ns.vendor_boot THEN "vendor_header" ELSE IF ns.output THEN "header" ELSE "done"

AfterVendorBoot(ns) == IF ns.output THEN "header" ELSE "done"

\* args = parse_cmdline(): FileType('wb') creates the output files (also
\* when a later option is rejected: the output options are taken first)
ParseCmdline ==
    /\ pc = "start"
    /\ LET r == parse_cmdline(argv)
       IN  /\ args' = r.args
           /\ err' = r.err
           /\ pc' = IF r.err # NoError THEN "failed" ELSE AfterParse(r.args)
    /\ output' = IF argv.output THEN Created(Opened) ELSE NoFile
    /\ vendor_boot' = IF argv.vendor_boot THEN Created(Opened) ELSE NoFile
    /\ UNCHANGED <<argv, boot_img, decoded, original, gki>>

\* main(): the checks of the vendor boot image and write_vendor_boot_header
MainVendorBootHeader ==
    /\ pc = "vendor_header"
    /\ LET st == Run(Opened, VendorBootChecks(args) \o write_vendor_boot_header(args))
       IN  /\ vendor_boot' = Created(st)
           /\ err' = st.err
           /\ pc' = IF st.err # NoError THEN "failed" ELSE "vendor_data"
    /\ UNCHANGED <<argv, args, output, boot_img, decoded, original, gki>>

\* main(): write_vendor_boot_data
MainVendorBootData ==
    /\ pc = "vendor_data"
    /\ LET st == Run([f |-> vendor_boot.f, err |-> NoError, segs |-> vendor_boot.segs],
                     write_vendor_boot_data(args))
       IN  /\ vendor_boot' = Created(st)
           /\ err' = st.err
           /\ pc' = IF st.err # NoError THEN "failed" ELSE AfterVendorBoot(args)
    /\ UNCHANGED <<argv, args, output, boot_img, decoded, original, gki>>

\* main(): the check of --second and write_header
MainWriteHeader ==
    /\ pc = "header"
    /\ LET st == Run(Opened, SecondCheck(args) \o write_header(args))
       IN  /\ output' = Created(st)
           /\ err' = st.err
           /\ pc' = IF st.err # NoError THEN "failed" ELSE "data"
    /\ UNCHANGED <<argv, args, vendor_boot, boot_img, decoded, original, gki>>

\* main(): write_data
MainWriteData ==
    /\ pc = "data"
    /\ LET st == Run([f |-> output.f, err |-> NoError, segs |-> output.segs],
                     write_data(args, DataPageSize(args)))
       IN  /\ output' = Created(st)
           /\ err' = st.err
           /\ pc' = IF st.err # NoError THEN "failed" ELSE "done"
    /\ UNCHANGED <<argv, args, vendor_boot, boot_img, decoded, original, gki>>

\* the bytes of the file unpack_bootimg is given
ImageOf(which) ==
    IF which = "output" THEN output.f
    ELSE IF which = "vendor_boot" THEN vendor_boot.f
    ELSE ForeignImage

\* unpack_bootimg --boot_img <one of the images written, or a foreign file>
UnpackImage ==
    /\ pc = "done"
    /\ ~original.repacking
    /\ \E which \in {"output", "vendor_boot", "foreign"} :
          /\ which = "output" => args.output
          /\ which = "vendor_boot" => args.vendor_boot
          /\ boot_img' = which
          /\ decoded' = unpack_image(ImageOf(which))
    /\ pc' = "unpacked"
    /\ UNCHANGED <<argv, args, err, output, vendor_boot, original, gki>>

\* repack_bootimg on the unpacked image, the ramdisk unchanged: it fails,
\* or it runs mkbootimg with the command line of repack_command
Repack ==
    /\ pc = "unpacked"
    /\ LET c == repack_command(decoded)
       IN  \/ /\ c.err # NoError
              /\ pc' = "repack_failed"
              /\ err' = c.err
              /\ UNCHANGED <<argv, output, vendor_boot, original>>
           \/ /\ c.err = NoError
              /\ pc' = "start"
              /\ argv' = c.cmd
              /\ original' = [repacking |-> TRUE, f |-> ImageOf(boot_img), order |-> c.order]
              /\ output' = NoFile
              /\ vendor_boot' = NoFile
              /\ UNCHANGED err
    /\ UNCHANGED <<args, boot_img, decoded, gki>>

Next ==
    \/ ParseCmdline
    \/ MainVendorBootHeader
    \/ MainVendorBootData
    \/ MainWriteHeader
    \/ MainWriteData
    \/ UnpackImage
    \/ Repack

Spec == Init /\ [][Next]_vars

\* ------------------------------------------------------------ certify_bootimg

\* certify_bootimg runs at most this many times on an image and its results
MaxCertifications == 2

\* boot images for certify_bootimg: with and without kernel and ramdisk, up
\* to 16K and longer; a version mkbootimg rejects leaves an empty file
CertInputs ==
    {[NoArgs EXCEPT !.output = TRUE, !.header_version = Some(DecText(hv, 1)),
                    !.kernel = k, !.ramdisk = r] :
        hv \in {3, 4}, k \in {None, File(1, 4096), File(1, 16385)},
        r \in {None, File(2, 6000)}}
    \cup {[NoArgs EXCEPT !.output = TRUE, !.header_version = Some(DecText(5, 1)),
                         !.kernel = File(1, 4096)]}

\* --partition_size of the AVB footer of the image given, 0 for no footer
PartitionSizes == {0, 32768, 65536}

\* the bytes avbtool needs for the vbmeta and the footer
AvbRooms == {4096, 8192}

\* the sizes of the certificates generate_gki_certificate returns
CertificateSizes == {2048, 8192, 14336}

CertInit ==
    /\ argv \in CertInputs
    /\ pc = "start"
    /\ args = parse_cmdline(NoArgs).args
    /\ err = NoError
    /\ output = NoFile
    /\ vendor_boot = NoFile
    /\ boot_img = "none"
    /\ decoded = NotDecoded
    /\ original = NotRepacked
    /\ gki = NotCertifying

\* main(): shutil.copy2(args.boot_img, args.output), for the image
\* mkbootimg left, as it is or with an AVB footer, and then for the image
\* the run before left
CertifyCopy ==
    /\ \/ /\ gki.pc = "idle"
          /\ pc \in {"done", "failed"} /\ output.exists
          /\ \E partition_size \in PartitionSizes, room \in AvbRooms :
                LET image == IF partition_size = 0 THEN output.f
                             ELSE add_hash_footer(output.f, partition_size, room).f
                IN  gki' = [gki EXCEPT !.pc = "copied", !.at = "copy2", !.boot_img = image,
                                       !.output = image, !.before = image]
       \/ /\ gki.pc = "done"
          /\ gki.runs < MaxCertifications
          /\ gki' = [gki EXCEPT !.pc = "copied", !.at = "copy2", !.boot_img = gki.output,
                                 !.before = gki.output, !.certs = <<>>]
    /\ UNCHANGED <<argv, pc, args, err, output, vendor_boot, boot_img, decoded, original>>

\* main(): erase_certificate_and_avb_footer(args.output)
CertifyErase ==
    /\ gki.pc = "copied"
    /\ LET r == erase_certificate_and_avb_footer(gki.output)
       IN  gki' = [gki EXCEPT !.pc = IF r.err # NoError THEN "failed" ELSE "erased",
                              !.at = "erase_certificate_and_avb_footer",
                              !.before = gki.output, !.output = r.f, !.err = r.err]
    /\ UNCHANGED <<argv, pc, args, err, output, vendor_boot, boot_img, decoded, original>>

\* main(): add_certificate(args.output, ...), with the key of this run
CertifyAddCertificate ==
    /\ gki.pc = "erased"
    /\ \E b \in CertificateSizes, k \in CertificateSizes :
          LET boot == Certificate("boot", gki.runs + 1, b)
              generic_kernel == Certificate("generic_kernel", gki.runs + 1, k)
              r == add_certificate(gki.output, get_kernel(gki.output), boot, generic_kernel)
          IN  gki' = [gki EXCEPT !.pc = IF r.err # NoError THEN "failed" ELSE "certified",
                                 !.at = "add_certificate",
                                 !.before = gki.output, !.output = r.f, !.err = r.err,
                                 !.certs = <<boot, generic_kernel>>]
    /\ UNCHANGED <<argv, pc, args, err, output, vendor_boot, boot_img, decoded, original>>

\* main(): add_avb_footer(args.output, get_avb_image_size(args.boot_img))
CertifyAddFooter ==
    /\ gki.pc = "certified"
    /\ \E room \in AvbRooms :
          LET r == add_avb_footer(gki.output, get_avb_image_size(gki.boot_img), room)
          IN  gki' = [gki EXCEPT !.pc = IF r.err # NoError THEN "failed" ELSE "done",
                                 !.at = "add_avb_footer",
                                 !.before = gki.output, !.output = r.f, !.err = r.err,
                                 !.runs = IF r.err # NoError THEN @ ELSE @ + 1]
    /\ UNCHANGED <<argv, pc, args, err, output, vendor_boot, boot_img, decoded, original>>

CertNext ==
    \/ ParseCmdline
    \/ MainWriteHeader
    \/ MainWriteData
    \/ CertifyCopy
    \/ CertifyErase
    \/ CertifyAddCertificate
    \/ CertifyAddFooter

CertSpec == CertInit /\ [][CertNext]_vars

\* ------------------------------------------------------------ properties

\* mkbootimg has ended, its command line accepted by parse_cmdline
EncoderRan ==
    /\ pc \in {"done", "failed", "unpacked"}
    /\ parse_cmdline(argv).err = NoError

\* the unit the segments of the boot image are padded to
BootUnit == IF args.header_version > 2 THEN BOOT_IMAGE_HEADER_V3_PAGESIZE ELSE args.pagesize

\* the length of file, the start of its header and of its segments are
\* multiples of unit, and pad_file wrote nothing where the position was one
Aligned(file, unit) ==
    /\ Tell(file.f) % unit = 0
    /\ \A i \in 1..Len(file.segs) :
          LET s == file.segs[i]
          IN  /\ s.name \notin {"pad", "fragment"} => s.off % unit = 0
              /\ s.name = "pad" /\ s.off % unit = 0 => s.n = 0

\* C2: every image mkbootimg completes has a length that is a multiple of
\* the padding unit, its header and every segment start at a multiple of the
\* unit, and pad_file adds nothing at an aligned position; the unit is
\* 4096 for boot images of version 3 and 4 and --pagesize for the others.
C2_PaddingInvariant ==
    pc = "done" /\ err = NoError =>
        /\ args.output => Aligned(output, BootUnit)
        /\ args.vendor_boot => Aligned(vendor_boot, args.pagesize)

\* a version 3 or 4 boot image written with a --pagesize other than 4096,
\* with a pad_file call that wrote nothing and one that wrote bytes
C2_Witness ==
    /\ pc = "done" /\ err = NoError /\ args.output
    /\ args.header_version \in {3, 4}
    /\ args.pagesize # BOOT_IMAGE_HEADER_V3_PAGESIZE
    /\ filesize(args.kernel) > 0 /\ filesize(args.ramdisk) > 0
    /\ \E i \in 1..Len(output.segs) : output.segs[i].name = "pad" /\ output.segs[i].n = 0
    /\ \E i \in 1..Len(output.segs) : output.segs[i].name = "pad" /\ output.segs[i].n > 0

\* the command line given to mkbootimg for the image that was unpacked
SuppliedCmdline ==
    IF boot_img = "vendor_boot" THEN args.vendor_cmdline ELSE args.cmdline

\* the image mkbootimg wrote when repack_bootimg ran it
Repacked == IF boot_img = "vendor_boot" THEN vendor_boot.f ELSE output.f

\* C1: an image of version 3 or 4 written by mkbootimg, unpacked, and packed
\* again from mkbootimg_args.json and the extracted files, is the same
\* bytes.
C1_RoundTrip ==
    (boot_img # "foreign" /\ decoded.version \in {3, 4}) =>
        /\ pc # "repack_failed"
        /\ (original.repacking /\ pc \in {"done", "failed"})
           => (pc = "done" /\ err = NoError /\ Repacked = original.f)

\* C3: a --cmdline longer than 1535 characters and a --vendor_cmdline longer
\* than 2047 characters are rejected as too long (the last byte of the field
\* is kept for the terminator).
C3_CmdlineCapacity ==
    pc # "start" =>
        /\ (argv.cmdline # None /\ StrLen(argv.cmdline[1]) > BOOT_V3_ARGS_SIZE - 1)
           => (pc = "failed" /\ err = "StringLengthExceeded")
        /\ (argv.vendor_cmdline # None
            /\ StrLen(argv.vendor_cmdline[1]) > VENDOR_BOOT_ARGS_SIZE - 1)
           => (pc = "failed" /\ err = "StringLengthExceeded")

\* C4: every command line field of an image mkbootimg completed holds a NUL
\* byte, and unpack_bootimg returns the command line that was given.
C4_CmdlineTermination ==
    (pc = "unpacked" /\ boot_img # "foreign") =>
        LET image == OpenImage(ImageOf(boot_img))
            legacy_cmdline == 8 + 9 * 4 + 4 + BOOT_NAME_SIZE
            legacy_extra == legacy_cmdline + BOOT_ARGS_SIZE + 32
        IN  /\ boot_img = "vendor_boot"
               => HasNul(ReadS(image, 8 + 5 * 4, VENDOR_BOOT_ARGS_SIZE))
            /\ (boot_img = "output" /\ args.header_version > 2)
               => HasNul(ReadS(image, 8 + 9 * 4, BOOT_V3_ARGS_SIZE))
            /\ (boot_img = "output" /\ args.header_version <= 2)
               => /\ HasNul(ReadS(image, legacy_cmdline, BOOT_ARGS_SIZE))
                  /\ HasNul(ReadS(image, legacy_extra, BOOT_EXTRA_ARGS_SIZE))
            /\ Cat(decoded.cmdline, decoded.extra_cmdline) = SuppliedCmdline

\* C5: for header versions 0 to 2 the first 511 characters of the command
\* line and a NUL are in the field of 512 bytes at offset 64, the next 1023
\* characters and a NUL in the field of 1024 bytes at offset 608.
C5_LegacyCmdlineSplit ==
    ( /\ pc = "done" /\ err = NoError /\ args.output /\ args.header_version <= 2
      /\ argv.cmdline # None
      /\ StrLen(argv.cmdline[1]) <= (BOOT_ARGS_SIZE - 1) + (BOOT_EXTRA_ARGS_SIZE - 1) )
    => LET image == OpenImage(output.f)
           cmdline == argv.cmdline[1]
           legacy_cmdline == 8 + 9 * 4 + 4 + BOOT_NAME_SIZE
           legacy_extra == legacy_cmdline + BOOT_ARGS_SIZE + 32
       IN  /\ ReadS(image, legacy_cmdline, BOOT_ARGS_SIZE)
                = PackS(BOOT_ARGS_SIZE, Take(cmdline, BOOT_ARGS_SIZE - 1))
           /\ ReadS(image, legacy_extra, BOOT_EXTRA_ARGS_SIZE)
                = PackS(BOOT_EXTRA_ARGS_SIZE, Drop(cmdline, BOOT_ARGS_SIZE - 1))

\* C6: unpack_bootimg reads a file starting with 'ANDROID!' as a boot image,
\* one starting with 'VNDRBOOT' as a vendor boot image, and fails on a file
\* starting with anything else.
C6_UnknownMagicFails ==
    pc = "unpacked" =>
        /\ boot_img = "output" => decoded.reader = "boot"
        /\ boot_img = "vendor_boot" => decoded.reader = "vendor"
        /\ boot_img = "foreign" => decoded.err # NoError

\* C7 (as amended): a vendor boot image that passes the checks of main(), or
\* a boot image of version 2 written alone, fails with 'DTB image must not
\* be empty' when the dtb is absent or empty (the boot image unless a field
\* written before the check does not fit); a boot image of version 0, 1, 3
\* or 4 written alone never fails so.
C7_DtbMandatory ==
    EncoderRan =>
        /\ ( /\ args.vendor_boot
             /\ args.header_version \in {3, 4}
             /\ ~(args.header_version = 3 /\ args.vendor_ramdisk = None)
             /\ filesize(args.dtb) = 0 )
           => (pc = "failed" /\ err = "DTBEmpty" /\ vendor_boot.f = <<>>)
        /\ (~args.vendor_boot /\ args.output /\ args.header_version = 2
            /\ filesize(args.dtb) = 0)
           => /\ pc = "failed"
              /\ \/ err = "DTBEmpty" /\ Tell(output.f) = BOOT_IMAGE_HEADER_V1_SIZE
                 \/ err = "struct.error" /\ Tell(output.f) < BOOT_IMAGE_HEADER_V1_SIZE
        /\ (~args.vendor_boot /\ args.header_version \in {0, 1, 3, 4}) => err # "DTBEmpty"

\* a version 2 boot image without dtb: the error, after the 1648 bytes
\* written before the check
C7_Witness ==
    /\ pc = "failed" /\ err = "DTBEmpty"
    /\ args.header_version = 2 /\ args.dtb = None
    /\ Tell(output.f) = BOOT_IMAGE_HEADER_V1_SIZE

\* C7 (as the specification states it): with header_version > 1 and an
\* absent or empty dtb the encoding fails with 'DTB must not be empty'
\* (where no other check of the encoder fails); with header_version 0 or 1
\* and no dtb a boot image is written.
C7_DtbMandatoryAboveV1 ==
    ( /\ EncoderRan
      /\ args.output \/ args.vendor_boot
      /\ err \notin {"NotSupported", "VendorBootNotCompatible", "VendorRamdiskMissing",
                     "SecondNotCompatible", "struct.error"} )
    => /\ (args.header_version > 1 /\ filesize(args.dtb) = 0) => err = "DTBEmpty"
       /\ (args.header_version <= 1 /\ args.dtb = None) => err = NoError

\* C8: a boot image asked with --second and header_version > 2 is not
\* written: mkbootimg fails, with '--second not compatible' when the boot
\* image is its only output, and --output holds no byte.
C8_SecondRejected ==
    (EncoderRan /\ args.output /\ args.second # None /\ args.header_version > 2) =>
        /\ pc = "failed"
        /\ err # NoError
        /\ output.f = <<>>
        /\ ~args.vendor_boot => err = "SecondNotCompatible"

\* --second with version 3 or 4: the error, and an empty --output
C8_Witness ==
    /\ pc = "failed" /\ err = "SecondNotCompatible"
    /\ args.header_version \in {3, 4} /\ args.second # None
    /\ output.exists /\ output.f = <<>>

\* C9: --vendor_boot with a header_version other than 3 and 4 fails, and
\* --vendor_boot with header_version 3 and no --vendor_ramdisk fails, both
\* with no byte written to the vendor boot image.
C9_VendorBootPreconditions ==
    (EncoderRan /\ args.vendor_boot) =>
        /\ args.header_version \notin {3, 4}
           => (pc = "failed" /\ err = "VendorBootNotCompatible" /\ vendor_boot.f = <<>>)
        /\ (args.header_version = 3 /\ args.vendor_ramdisk = None)
           => (pc = "failed" /\ err = "VendorRamdiskMissing" /\ vendor_boot.f = <<>>)

\* version 3 without --vendor_ramdisk: the error, and an empty file
C9_Witness ==
    /\ pc = "failed" /\ err = "VendorRamdiskMissing"
    /\ args.header_version = 3 /\ args.vendor_ramdisk = None
    /\ vendor_boot.exists /\ vendor_boot.f = <<>>

\* C10: with header_version > 4 mkbootimg fails for a boot image and for a
\* vendor boot image, on a check of the version ('Boot header version not
\* supported' for a boot image without --second), and writes no byte.
C10_VersionUnsupported ==
    (EncoderRan /\ args.header_version > 4 /\ (args.output \/ args.vendor_boot)) =>
        /\ pc = "failed"
        /\ err \in {"NotSupported", "VendorBootNotCompatible", "SecondNotCompatible"}
        /\ (~args.vendor_boot /\ args.second = None) => err = "NotSupported"
        /\ args.vendor_boot => err = "VendorBootNotCompatible"
        /\ output.f = <<>>
        /\ vendor_boot.f = <<>>

\* header_version 5 for a boot image: the error, and an empty --output
C10_Witness ==
    /\ pc = "failed" /\ err = "NotSupported"
    /\ args.header_version > 4
    /\ output.exists /\ output.f = <<>>

\* where the encoder started the segment called name of file
SegmentOffset(file, name) ==
    file.segs[CHOOSE i \in 1..Len(file.segs) : file.segs[i].name = name].off

HasSegment(file, name) == \E i \in 1..Len(file.segs) : file.segs[i].name = name

\* the name given with the i-th --vendor_ramdisk_fragment
FragmentName(i) == StrVal(argv.fragments[i].ramdisk_name)

\* two fragments of the command line share a name, or one has the empty
\* name of the entry made for --vendor_ramdisk
SharedName ==
    \/ \E i, j \in 1..Len(argv.fragments) : i < j /\ FragmentName(i) = FragmentName(j)
    \/ argv.vendor_ramdisk # None /\ \E i \in 1..Len(argv.fragments) : FragmentName(i) = <<>>

\* a version 4 vendor boot image was written, ramdisk table included
TableWritten ==
    /\ pc \in {"done", "unpacked"} /\ ~original.repacking
    /\ args.vendor_boot /\ args.header_version = 4
    /\ HasSegment(vendor_boot, "vendor_ramdisk_table")

\* the 32-byte name field of entry idx (from 0) of the table of vendor_boot
NameField(idx) ==
    ReadS(OpenImage(vendor_boot.f),
          SegmentOffset(vendor_boot, "vendor_ramdisk_table")
          + VENDOR_RAMDISK_TABLE_ENTRY_V4_SIZE * idx + 12,
          VENDOR_RAMDISK_NAME_SIZE)

\* C11: a vendor boot command line of version 4 in which two fragments share
\* a name, or a fragment has the empty name next to --vendor_ramdisk, fails
\* with 'Duplicated vendor ramdisk name' and no byte in the vendor boot
\* image; the names in a table that was written are pairwise distinct.
C11_UniqueNames ==
    /\ (pc # "start" /\ argv.vendor_boot /\ args.header_version = 4 /\ SharedName)
       => (pc = "failed" /\ err = "DuplicatedName" /\ vendor_boot.f = <<>>)
    /\ TableWritten
       => \A i, j \in 0..(args.vendor_ramdisk_table_entry_num - 1) :
             i # j => NameField(i) # NameField(j)

\* the ramdisks of the command line in the order of their entries: the one
\* of --vendor_ramdisk, then the fragments
SuppliedRamdisks ==
    (IF argv.vendor_ramdisk # None THEN <<argv.vendor_ramdisk[1]>> ELSE <<>>)
    \o [i \in 1..Len(argv.fragments) |-> argv.fragments[i].vendor_ramdisk_fragment]

\* the sum of the sizes of the first n files
RECURSIVE SumSizes(_, _)
SumSizes(files, n) == IF n = 0 THEN 0 ELSE SumSizes(files, n - 1) + files[n].size

\* the fields of the version 4 vendor boot header after the dtb address
VendorTableSizeAt == 8 + 5 * 4 + VENDOR_BOOT_ARGS_SIZE + 4 + BOOT_NAME_SIZE + 4 + 4 + 8

VendorTableEntryNumAt == VendorTableSizeAt + 4

VendorTableEntrySizeAt == VendorTableSizeAt + 8

\* entry idx (from 0) of the table of vendor_boot, read 108 bytes after the
\* one before
WrittenEntry(idx) ==
    ReadEntry(OpenImage(vendor_boot.f),
              SegmentOffset(vendor_boot, "vendor_ramdisk_table")
              + VENDOR_RAMDISK_TABLE_ENTRY_V4_SIZE * idx)

\* C12: in a version 4 vendor boot image with N ramdisks of sizes s1..sN,
\* entry i holds size si and the offset s1 + .. + s(i-1), the header holds
\* the ramdisk size s1 + .. + sN, the entry count N, the entry size 108 and
\* the table size N * 108, and the entries take 108 bytes each: the table
\* ends N * 108 bytes after its start.
C12_TableArithmetic ==
    TableWritten =>
        LET image == OpenImage(vendor_boot.f)
            files == SuppliedRamdisks
            N == Len(files)
            start == SegmentOffset(vendor_boot, "vendor_ramdisk_table")
        IN  /\ \A i \in 1..N :
                  /\ WrittenEntry(i - 1).ramdisk_size = files[i].size
                  /\ WrittenEntry(i - 1).ramdisk_offset = SumSizes(files, i - 1)
            /\ NumToInt(ReadI(image, 24)) = SumSizes(files, N)
            /\ NumToInt(ReadI(image, VendorTableEntryNumAt)) = N
            /\ NumToInt(ReadI(image, VendorTableEntrySizeAt)) = 108
            /\ NumToInt(ReadI(image, VendorTableSizeAt)) = N * 108
            /\ \E k \in 1..Len(vendor_boot.segs) :
                  /\ vendor_boot.segs[k].name = "pad"
                  /\ vendor_boot.segs[k].off = start + N * 108

\* a table of three entries of different sizes, none at offset 0 but the first
C12_Witness ==
    /\ TableWritten
    /\ Len(SuppliedRamdisks) = 3
    /\ WrittenEntry(1).ramdisk_offset > 0
    /\ WrittenEntry(2).ramdisk_offset > WrittenEntry(1).ramdisk_offset
    /\ WrittenEntry(2).ramdisk_size > 0

\* a boot image of version 0, 1 or 2 was written
LegacyWritten ==
    /\ pc \in {"done", "unpacked"} /\ err = NoError
    /\ args.output /\ args.header_version <= 2

\* the id field of the legacy header follows the magic, ten words, the
\* board name and the first command line field
IdAt == 8 + 10 * 4 + BOOT_NAME_SIZE + BOOT_ARGS_SIZE

\* what one segment of the command line adds to the digest: its bytes, if
\* any, and its length in 4 bytes
DigestPart(f) ==
    (IF filesize(f) > 0
     THEN <<[k |-> "d", id |-> f[1].id, from |-> 0, n |-> f[1].size]>> ELSE <<>>)
    \o <<[k |-> "I", v |-> IntToNum(filesize(f))]>>

\* C13: the id of a boot image of version 0 to 2 is the digest of kernel,
\* ramdisk and second, of recovery_dtbo from version 1 on and of dtb from
\* version 2 on, each as its bytes followed by its 4-byte length, an absent
\* segment as the 4-byte length 0 alone; the digest input is a function of
\* the version and the segments only, whatever the addresses, the page size,
\* the board name and the command line are.
C13_DigestComposition ==
    LegacyWritten =>
        LET image == OpenImage(output.f)
            id == image.chunks[ChunkAt(image, IdAt)]
        IN  /\ ChunkAt(image, IdAt) > 0
            /\ id.k = "sha"
            /\ id.in = DigestPart(argv.kernel) \o DigestPart(argv.ramdisk)
                       \o DigestPart(argv.second)
                       \o (IF args.header_version > 0
                           THEN DigestPart(argv.recovery_dtbo) ELSE <<>>)
                       \o (IF args.header_version > 1 THEN DigestPart(argv.dtb) ELSE <<>>)

\* a version 2 image with no second and with a recovery_dtbo, written with a
\* page size other than the default
C13_Witness ==
    /\ LegacyWritten
    /\ args.header_version = 2 /\ args.pagesize # 2048
    /\ argv.second = None /\ filesize(argv.recovery_dtbo) > 0 /\ filesize(argv.kernel) > 0
    /\ OpenImage(output.f).chunks[ChunkAt(OpenImage(output.f), IdAt)].k = "sha"

\* unpack_bootimg ran to its end on an image mkbootimg wrote
Unpacked == pc = "unpacked" /\ boot_img # "foreign" /\ decoded.err = NoError

\* the file called name, with index idx, is in the output directory
FileExists(name, idx) ==
    \E i \in 1..Len(decoded.files) :
        decoded.files[i].name = name /\ decoded.files[i].idx = idx

\* C14 (as amended): after a decoding, second, recovery_dtbo and the dtb of
\* a boot image exist only if their size in the image is greater than 0;
\* a decoding that runs to its end writes kernel and ramdisk of a boot
\* image, and vendor_ramdisk (one vendor_ramdisk<i> per table entry in
\* version 4) and dtb of a vendor boot image, whatever their size.
C14_GuardedSegments ==
    /\ pc = "unpacked"
       => \A i \in 1..Len(decoded.files) :
             LET file == decoded.files[i]
             IN  /\ file.name \in {"second", "recovery_dtbo"} => file.size > 0
                 /\ (file.name = "dtb" /\ decoded.reader = "boot") => file.size > 0
    /\ Unpacked =>
        /\ decoded.reader = "boot"
           => /\ FileExists("kernel", -1) /\ FileExists("ramdisk", -1)
              /\ FileExists("second", -1) <=> filesize(args.second) > 0
              /\ FileExists("recovery_dtbo", -1)
                    <=> (filesize(args.recovery_dtbo) > 0 /\ args.header_version \in {1, 2})
              /\ FileExists("dtb", -1) <=> args.header_version = 2
        /\ decoded.reader = "vendor"
           => /\ FileExists("dtb", -1)
              /\ args.header_version = 3 => FileExists("vendor_ramdisk", -1)
              /\ args.header_version = 4
                 => \A i \in 1..Len(SuppliedRamdisks) : FileExists("vendor_ramdisk", i - 1)

\* a boot image written without --kernel, and with an empty --second: the
\* file kernel exists and is empty, the file second does not exist
C14_Witness ==
    /\ Unpacked /\ decoded.reader = "boot"
    /\ args.kernel = None
    /\ \E i \in 1..Len(decoded.files) :
          /\ decoded.files[i].name = "kernel"
          /\ decoded.files[i].size = 0 /\ decoded.files[i].data = <<>>
    /\ \E i \in 1..Len(decoded.files) :
          decoded.files[i].name = "ramdisk" /\ decoded.files[i].size > 0

\* C14 (as the specification states it): a file kernel, ramdisk, second,
\* recovery_dtbo, dtb, vendor_ramdisk or vendor_ramdisk<i> exists after
\* the decoding only if the size of its segment in the image is greater
\* than 0.
C14_NoFileForEmptySegment ==
    Unpacked => \A i \in 1..Len(decoded.files) : decoded.files[i].size > 0

C16_LegacyMetadata ==
    (pc = "unpacked" /\ boot_img = "output" /\ args.header_version <= 2) =>
        /\ decoded.json # None
        /\ LET json == decoded.json[1]
               second_address == IF filesize(args.second) > 0
                                 THEN NumAdd(args.base, args.second_offset) ELSE <<>>
           IN  /\ DOMAIN json =
                     {"header_version", "base", "kernel_offset", "ramdisk_offset",
                      "second_offset", "tags_offset", "pagesize", "os_version",
                      "os_patch_level", "board", "cmdline"}
                     \cup (IF args.header_version = 2 THEN {"dtb_offset"} ELSE {})
               /\ json.header_version = DecText(args.header_version, 1)
               /\ json.base = HexText(<<>>, 8)
               /\ json.kernel_offset = HexText(NumAdd(args.base, args.kernel_offset), 8)
               /\ json.second_offset = HexText(second_address, 8)
               /\ json.tags_offset = HexText(NumAdd(args.base, args.tags_offset), 8)
               /\ json.pagesize = HexText(IntToNum(args.pagesize), 8)
               /\ json.os_version = format_os_version(args.os_version)
               /\ json.os_patch_level = format_os_patch_level(args.os_patch_level)
               /\ json.board = args.board
               /\ json.cmdline = Cat(decoded.cmdline, decoded.extra_cmdline)
               /\ args.header_version = 2
                  => json.dtb_offset = HexText(NumAdd(args.base, args.dtb_offset), 16)

\* t is '0x' and exactly w hexadecimal digits
IsHexLiteral(t, w) ==
    /\ Len(t) = w + 2
    /\ t[1] = 48 /\ t[2] = 120
    /\ \A i \in 3..Len(t) : IsHexDigit(t[i])

\* what mkbootimg makes of an offset of mkbootimg_args.json: base + offset
Reencoded(json, name) == NumAdd(parse_int(json.base).v, parse_int(json[name]).v)

\* the tags address and the dtb address of the vendor boot header
VendorTagsAt == 8 + 5 * 4 + VENDOR_BOOT_ARGS_SIZE

VendorDtbAddressAt == VendorTagsAt + 4 + BOOT_NAME_SIZE + 4 + 4

\* C17: the mkbootimg_args.json of a vendor boot image holds base
\* 0x00000000, kernel_offset, ramdisk_offset, tags_offset and pagesize as
\* '0x' and 8 hexadecimal digits and dtb_offset as '0x' and 16, each the
\* value of the header; parse_int of each, added to base, is the address
\* (the page size) of the header, and the header mkbootimg writes from them
\* holds the same fields.
C17_VendorMetadataLossless ==
    /\ (pc = "unpacked" /\ boot_img = "vendor_boot" /\ decoded.json # None) =>
        LET json == decoded.json[1]
            image == OpenImage(vendor_boot.f)
        IN  /\ json.base = <<48, 120, 48, 48, 48, 48, 48, 48, 48, 48>>
            /\ \A name \in {"kernel_offset", "ramdisk_offset", "tags_offset", "pagesize"} :
                  IsHexLiteral(json[name], 8) /\ parse_int(json[name]).err = NoError
            /\ IsHexLiteral(json.dtb_offset, 16) /\ parse_int(json.dtb_offset).err = NoError
            /\ parse_int(json.pagesize).v = ReadI(image, 12)
            /\ Reencoded(json, "kernel_offset") = ReadI(image, 16)
            /\ Reencoded(json, "ramdisk_offset") = ReadI(image, 20)
            /\ Reencoded(json, "tags_offset") = ReadI(image, VendorTagsAt)
            /\ Reencoded(json, "dtb_offset") = ReadQ(image, VendorDtbAddressAt)
            /\ ReadI(image, 12) = IntToNum(args.pagesize)
            /\ ReadI(image, 16) = NumAdd(args.base, args.kernel_offset)
            /\ ReadI(image, 20) = NumAdd(args.base, args.ramdisk_offset)
            /\ ReadI(image, VendorTagsAt) = NumAdd(args.base, args.tags_offset)
            /\ ReadQ(image, VendorDtbAddressAt) = NumAdd(args.base, args.dtb_offset)
    /\ (pc = "done" /\ err = NoError /\ original.repacking /\ boot_img = "vendor_boot") =>
        LET image == OpenImage(vendor_boot.f)
            first == OpenImage(original.f)
        IN  /\ \A off \in {12, 16, 20, VendorTagsAt} : ReadI(image, off) = ReadI(first, off)
            /\ ReadQ(image, VendorDtbAddressAt) = ReadQ(first, VendorDtbAddressAt)

\* a vendor boot image with the kernel address 0xffffffff and the dtb
\* address 0xffffffffeeeeeeee, decoded
C17_Witness ==
    /\ pc = "unpacked" /\ boot_img = "vendor_boot" /\ decoded.json # None
    /\ decoded.json[1].kernel_offset = Max32Hex[1]
    /\ decoded.json[1].ramdisk_offset = HexText(<<7, 15, 15, 15, 15, 15, 15, 15>>, 8)
    /\ decoded.json[1].dtb_offset = Max64Hex[1]
    /\ args.pagesize = 2048

\* ceil(n / P)
Pages(n, P) == IF n % P = 0 THEN n \div P ELSE n \div P + 1

\* the file called name that the decoder wrote
DecodedFile(name) ==
    decoded.files[CHOOSE i \in 1..Len(decoded.files) : decoded.files[i].name = name]

\* the bytes of an input file of the command line, none for a file not given
Supplied(file) == IF file = None THEN <<>> ELSE FileBytes(file[1])

\* a boot image of version 0, 1 or 2 was written and decoded
LegacyUnpacked ==
    /\ pc = "unpacked" /\ boot_img = "output" /\ decoded.err = NoError
    /\ args.header_version <= 2

\* the size of the recovery_dtbo segment of the image: version 0 has none
RecoveryDtboSize == IF args.header_version >= 1 THEN filesize(args.recovery_dtbo) ELSE 0

\* C18: for every boot image of version 0, 1 or 2 that mkbootimg writes
\* with page size P, unpack_bootimg takes the kernel at P, the ramdisk at
\* P * (1 + pages(kernel)), second at P * (1 + pages(kernel) +
\* pages(ramdisk)) and the dtb at P * (1 + pages(kernel) + pages(ramdisk) +
\* pages(second) + pages(recovery_dtbo)), pages(n) = ceil(n / P); these are
\* the offsets at which mkbootimg wrote the segments, and every extracted
\* file holds the bytes of the file given to mkbootimg.
C18_LegacyOffsets ==
    LegacyUnpacked =>
        LET P == args.pagesize
            k == Pages(filesize(args.kernel), P)
            r == Pages(filesize(args.ramdisk), P)
            s == Pages(filesize(args.second), P)
            o == Pages(RecoveryDtboSize, P)
            At(name) == DecodedFile(name).offset
            Agrees(name) == HasSegment(output, name) => At(name) = SegmentOffset(output, name)
        IN  /\ At("kernel") = P /\ Agrees("kernel")
            /\ DecodedFile("kernel").data = Supplied(args.kernel)
            /\ At("ramdisk") = P * (1 + k) /\ Agrees("ramdisk")
            /\ DecodedFile("ramdisk").data = Supplied(args.ramdisk)
            /\ filesize(args.second) > 0 =>
                  /\ FileExists("second", -1)
                  /\ At("second") = P * (1 + k + r) /\ Agrees("second")
                  /\ HasSegment(output, "second")
                  /\ DecodedFile("second").data = Supplied(args.second)
            /\ args.header_version = 2 /\ filesize(args.dtb) > 0 =>
                  /\ FileExists("dtb", -1)
                  /\ At("dtb") = P * (1 + k + r + s + o) /\ Agrees("dtb")
                  /\ HasSegment(output, "dtb")
                  /\ DecodedFile("dtb").data = Supplied(args.dtb)
            /\ \A i \in 1..Len(decoded.files) :
                  LET file == decoded.files[i]
                  IN  /\ file.name \in {"kernel", "ramdisk", "second", "recovery_dtbo", "dtb"}
                      /\ file.data = Supplied(args[file.name])
                      /\ file.size = filesize(args[file.name])

\* five segments of 4096 bytes in a version 2 image of page size 4096: the
\* kernel at 4096, the ramdisk at 8192, second at 12288, the dtb at 20480
C18_Witness ==
    /\ LegacyUnpacked /\ args.header_version = 2 /\ args.pagesize = 4096
    /\ \A name \in {"kernel", "ramdisk", "second", "recovery_dtbo", "dtb"} :
          filesize(args[name]) = 4096 /\ FileExists(name, -1)
    /\ DecodedFile("kernel").offset = 4096
    /\ DecodedFile("ramdisk").offset = 8192
    /\ DecodedFile("second").offset = 12288
    /\ DecodedFile("dtb").offset = 20480
    /\ DecodedFile("dtb").data = FileBytes(args.dtb[1])

\* the recovery_dtbo size of the version 1 and 2 header follows the extra
\* command line; its offset and the header size follow it
RecoveryDtboSizeAt == IdAt + 32 + BOOT_EXTRA_ARGS_SIZE

RecoveryDtboOffsetAt == RecoveryDtboSizeAt + 4

HeaderSizeAt == RecoveryDtboOffsetAt + 8

\* the image f with another value v in the recovery_dtbo offset of its header
WithRecoveryDtboOffset(f, v) ==
    LET starts == Starts(f)
    IN  [i \in 1..Len(f) |->
           IF starts[i] = RecoveryDtboOffsetAt THEN [k |-> "Q", v |-> v] ELSE f[i]]

\* C19: the header of a version 1 or 2 boot image holds a recovery_dtbo
\* size and a 64-bit recovery_dtbo offset, both 0 when no --recovery_dtbo
\* is given; when one is given the offset is pagesize * (1 + pages(kernel)
\* + pages(ramdisk) + pages(second)), the position at which mkbootimg
\* writes the recovery_dtbo, and unpack_bootimg extracts recovery_dtbo from
\* the offset the header holds, whatever that offset is.
C19_RecoveryDtboOffsetStored ==
    (LegacyWritten /\ args.header_version \in {1, 2}) =>
        LET image == OpenImage(output.f)
            P == args.pagesize
            at == P * (1 + Pages(filesize(args.kernel), P) + Pages(filesize(args.ramdisk), P)
                         + Pages(filesize(args.second), P))
            moved == unpack_bootimage(OpenImage(WithRecoveryDtboOffset(output.f, IntToNum(P))))
        IN  /\ ReadI(image, HeaderSizeAt)
                  = IntToNum(IF args.header_version = 1 THEN BOOT_IMAGE_HEADER_V1_SIZE
                             ELSE BOOT_IMAGE_HEADER_V2_SIZE)
            /\ args.recovery_dtbo = None =>
                  /\ ReadI(image, RecoveryDtboSizeAt) = <<>>
                  /\ ReadQ(image, RecoveryDtboOffsetAt) = <<>>
                  /\ ~HasSegment(output, "recovery_dtbo")
            /\ args.recovery_dtbo # None =>
                  /\ ReadI(image, RecoveryDtboSizeAt) = Size(args.recovery_dtbo)
                  /\ ReadQ(image, RecoveryDtboOffsetAt) = IntToNum(at)
                  /\ HasSegment(output, "recovery_dtbo")
                  /\ SegmentOffset(output, "recovery_dtbo") = at
            /\ LegacyUnpacked =>
                  /\ FileExists("recovery_dtbo", -1) <=> filesize(args.recovery_dtbo) > 0
                  /\ FileExists("recovery_dtbo", -1) =>
                        /\ IntToNum(DecodedFile("recovery_dtbo").offset)
                              = ReadQ(image, RecoveryDtboOffsetAt)
                        /\ DecodedFile("recovery_dtbo").data = Supplied(args.recovery_dtbo)
                        /\ \E i \in 1..Len(moved.files) :
                              /\ moved.files[i].name = "recovery_dtbo"
                              /\ moved.files[i].offset = P
                              /\ moved.files[i].data
                                    = Slice(image, P, filesize(args.recovery_dtbo))

\* a version 2 image with kernel, ramdisk, second and recovery_dtbo that
\* are no whole pages, decoded: the recovery_dtbo is extracted from the
\* offset of the header, which is not the offset of the kernel
C19_Witness ==
    /\ LegacyUnpacked /\ args.header_version = 2
    /\ filesize(args.kernel) % args.pagesize # 0
    /\ filesize(args.second) % args.pagesize # 0
    /\ filesize(args.recovery_dtbo) > args.pagesize
    /\ FileExists("recovery_dtbo", -1)
    /\ IntToNum(DecodedFile("recovery_dtbo").offset)
          = ReadQ(OpenImage(output.f), RecoveryDtboOffsetAt)
    /\ DecodedFile("recovery_dtbo").offset > 3 * args.pagesize
    /\ DecodedFile("recovery_dtbo").data = FileBytes(args.recovery_dtbo[1])

\* a version 4 vendor boot image was written and decoded
V4Unpacked == TableWritten /\ pc = "unpacked" /\ boot_img = "vendor_boot"

IsFragment(seg) == seg.name = "fragment"

\* where mkbootimg wrote the ramdisks of the table, in the order of the writes
WrittenFragments == SelectSeq(vendor_boot.segs, IsFragment)

\* the file vendor_ramdisk<idx> that the decoder wrote
DecodedRamdisk(idx) ==
    decoded.files[CHOOSE k \in 1..Len(decoded.files) :
                     decoded.files[k].name = "vendor_ramdisk" /\ decoded.files[k].idx = idx]

\* C20: in a version 4 vendor boot image the ramdisks follow the padded
\* header back to back and are padded once, then come the dtb, the entries
\* of 108 bytes and the bootconfig, each padded to the page size;
\* unpack_bootimg reads the entries at page_size * (pages(header) +
\* pages(total ramdisk size) + pages(dtb)), where mkbootimg wrote them, with
\* the size, offset, type, name and board id that mkbootimg was given, and
\* writes one file vendor_ramdisk<i> per entry that holds the bytes of the
\* i-th ramdisk.
C20_VendorV4Layout ==
    V4Unpacked =>
        LET image == OpenImage(vendor_boot.f)
            P == args.pagesize
            files == SuppliedRamdisks
            entries == args.vendor_ramdisk_table_builder.entries
            N == Len(files)
            base == P * Pages(VENDOR_BOOT_IMAGE_HEADER_V4_SIZE, P)
            dtb == base + P * Pages(SumSizes(files, N), P)
            table == dtb + P * Pages(filesize(args.dtb), P)
            read(i) == ReadEntry(image, table + 108 * (i - 1))
        IN  /\ Len(WrittenFragments) = N /\ Len(entries) = N
            /\ \A i \in 1..N :
                  /\ WrittenFragments[i].off = base + SumSizes(files, i - 1)
                  /\ WrittenFragments[i].n = files[i].size
            /\ SegmentOffset(vendor_boot, "dtb") = dtb
            /\ SegmentOffset(vendor_boot, "vendor_ramdisk_table") = table
            /\ args.vendor_bootconfig # None =>
                  SegmentOffset(vendor_boot, "vendor_bootconfig") = table + P * Pages(108 * N, P)
            /\ \A i \in 1..N :
                  /\ read(i).ramdisk_size = entries[i].ramdisk_size
                  /\ read(i).ramdisk_offset = entries[i].ramdisk_offset
                  /\ read(i).ramdisk_type = entries[i].ramdisk_type
                  /\ read(i).board_id = entries[i].board_id
                  /\ read(i).err = NoError
                  /\ read(i).ramdisk_name = entries[i].ramdisk_name
            /\ decoded.err = NoError
            /\ \A i \in 1..N :
                  /\ FileExists("vendor_ramdisk", i - 1)
                  /\ DecodedRamdisk(i - 1).offset = base + SumSizes(files, i - 1)
                  /\ DecodedRamdisk(i - 1).data = FileBytes(files[i])
            /\ \A k \in 1..Len(decoded.files) :
                  decoded.files[k].name = "vendor_ramdisk" => decoded.files[k].idx \in 0..(N - 1)

\* a version 4 vendor boot image was written from --vendor_ramdisk and fragments
MixedTableWritten == TableWritten /\ argv.vendor_ramdisk # None /\ Len(argv.fragments) > 0

\* C21: when --vendor_ramdisk is given with N fragments to a version 4
\* vendor boot image, the first entry of the table is the one of
\* --vendor_ramdisk, with the empty name, offset 0, the size of that ramdisk,
\* a board id of zeros and the type platform (0x1); the entries of the
\* fragments follow in the order of the command line with their own type,
\* name and board id; the table has N + 1 entries and (N + 1) * 108 bytes.
C21_SynthesizedEntry ==
    MixedTableWritten =>
        LET image == OpenImage(vendor_boot.f)
            N == Len(argv.fragments)
            entries == args.vendor_ramdisk_table_builder.entries
        IN  /\ WrittenEntry(0).ramdisk_name = <<>>
            /\ WrittenEntry(0).ramdisk_offset = 0
            /\ WrittenEntry(0).ramdisk_size = argv.vendor_ramdisk[1].size
            /\ WrittenEntry(0).board_id = ZeroBoardId
            /\ WrittenEntry(0).ramdisk_type = IntToNum(VENDOR_RAMDISK_TYPE_PLATFORM)
            /\ \A i \in 1..N :
                  /\ WrittenEntry(i).ramdisk_size = argv.fragments[i].vendor_ramdisk_fragment.size
                  /\ WrittenEntry(i).ramdisk_name = FragmentName(i)
                  /\ WrittenEntry(i).ramdisk_type = entries[i + 1].ramdisk_type
                  /\ WrittenEntry(i).board_id = entries[i + 1].board_id
            /\ NumToInt(ReadI(image, VendorTableEntryNumAt)) = N + 1
            /\ NumToInt(ReadI(image, VendorTableSizeAt)) = (N + 1) * 108

\* the bytes [offset, offset + size) of the file f
BytesOf(f, offset, size) == Slice(OpenImage(f), offset, size)

\* bytes is nothing but NUL bytes
IsZeroBytes(bytes) == \A i \in 1..Len(bytes) : bytes[i].k = "x"

\* main() of certify_bootimg has just called add_certificate
AfterAddCertificate == gki.at = "add_certificate"

\* the length of the two certificates of the last add_certificate
CertificatesSize == gki.certs[1].n + gki.certs[2].n

\* C22: add_certificate raises ValueError when the boot and generic_kernel
\* certificates together have more than 16384 bytes, and then leaves the
\* image as it was; otherwise it appends the certificates followed by NUL
\* bytes up to 16384 bytes: the file grows by 16384 bytes and the bytes it
\* had are unchanged.
C22_CertificateRegion ==
    AfterAddCertificate =>
        LET size == Tell(gki.before)
            generated == get_kernel(gki.before).err = NoError
        IN  /\ (generated /\ CertificatesSize > 16384) =>
                  gki.pc = "failed" /\ gki.err = "ValueError"
            /\ gki.err = "ValueError" => (generated /\ CertificatesSize > 16384)
            /\ gki.pc = "failed" => gki.output = gki.before
            /\ (generated /\ CertificatesSize <= 16384) =>
                  /\ gki.pc = "certified"
                  /\ Tell(gki.output) = size + 16384
                  /\ BytesOf(gki.output, 0, size) = gki.before
                  /\ BytesOf(gki.output, size, CertificatesSize)
                        = <<[k |-> "certs", n |-> CertificatesSize, certs |-> gki.certs]>>
                  /\ IsZeroBytes(BytesOf(gki.output, size + CertificatesSize,
                                         16384 - CertificatesSize))

\* certificates of 2048 and 8192 bytes were appended to an image, with 6144
\* NUL bytes after them
C22_Witness ==
    /\ AfterAddCertificate /\ gki.pc = "certified"
    /\ gki.certs[1].n = 2048 /\ gki.certs[2].n = 8192
    /\ Tell(gki.before) > 0
    /\ Tell(gki.output) = Tell(gki.before) + 16384
    /\ gki.output[Len(gki.output)] = [k |-> "x", n |-> 6144]

\* main() of certify_bootimg has just called erase_certificate_and_avb_footer
AfterErase == gki.at = "erase_certificate_and_avb_footer"

\* C30: erase_certificate_and_avb_footer leaves the size of the image, as
\* avbtool erase_footer left it, unchanged when the image has at most 16384
\* bytes or when avbtool info_image does not accept its last 16384 bytes;
\* when it accepts them, the image loses exactly its last 16384 bytes; the
\* image it returns from is not empty, and the bytes before the part
\* removed are unchanged.
C30_EraseOnlySignature ==
    AfterErase =>
        LET erased == erase_footer(gki.before)
            size == Tell(erased)
            accepted == info_image(BytesOf(erased, size - 16384, 16384))
        IN  /\ gki.pc = "erased" =>
                  /\ size <= 16384 => gki.output = erased
                  /\ (size > 16384 /\ ~accepted) => gki.output = erased
                  /\ (size > 16384 /\ accepted) => Tell(gki.output) = size - 16384
                  /\ Tell(gki.output) > 0
                  /\ gki.output = BytesOf(gki.before, 0, Tell(gki.output))
            /\ gki.pc = "failed" => (gki.err = "AssertionError" /\ size = 0)
            /\ gki.pc \in {"erased", "failed"}

\* a certified image with an AVB footer loses the footer and the 16384
\* bytes of its certificates
C30_Witness ==
    /\ AfterErase /\ gki.pc = "erased"
    /\ HasAvbFooter(gki.before)
    /\ \E i \in 1..Len(gki.before) : gki.before[i].k = "certs"
    /\ \A i \in 1..Len(gki.output) : gki.output[i].k \notin {"certs", "avb"}
    /\ Tell(gki.output) = gki.before[Len(gki.before)].original_image_size - 16384

\* certify_bootimg has ended without an exception
Certified == gki.pc = "done"

\* the signature regions of the file f
SignatureRegions(f) == {i \in 1..Len(f) : f[i].k = "certs"}

\* C23: when the image given to certify_bootimg has an AVB footer, the
\* certified image has an AVB footer and the size of the image given;
\* certifying a certified image removes the 16384 bytes of its
\* certificates first: the second certified image has the size of the
\* first and holds one signature region, with the new certificates.
C23_CertifyKeepsSize ==
    Certified =>
        /\ HasAvbFooter(gki.boot_img) =>
              /\ HasAvbFooter(gki.output)
              /\ Tell(gki.output) = Tell(gki.boot_img)
        /\ gki.runs >= 2 =>
              /\ SignatureRegions(gki.boot_img) # {}
              /\ Tell(gki.output) = Tell(gki.boot_img)
        /\ Cardinality(SignatureRegions(gki.output)) = 1
        /\ \A i \in SignatureRegions(gki.output) :
              /\ gki.output[i].certs = gki.certs
              /\ gki.certs[1].key = gki.runs /\ gki.certs[2].key = gki.runs
              /\ i = Len(gki.output) - 1 \/ (i = Len(gki.output) - 2 /\ gki.output[i + 1].k = "x")
              /\ Tell(SubSeq(gki.output, i, Len(gki.output) - 1)) = 16384

\* an image with an AVB footer for a partition of 32768 bytes, certified
\* twice: the second certified image has 32768 bytes and the certificates
\* of the second key
C23_Witness ==
    /\ Certified /\ gki.runs = 2
    /\ Tell(gki.boot_img) = 32768 /\ Tell(gki.output) = 32768
    /\ HasAvbFooter(gki.boot_img) /\ HasAvbFooter(gki.output)
    /\ \E i \in 1..Len(gki.output) :
          gki.output[i].k = "certs" /\ gki.output[i].certs[1].key = 2
    /\ \E i \in 1..Len(gki.boot_img) :
          gki.boot_img[i].k = "certs" /\ gki.boot_img[i].certs[1].key = 1

\* the header of file is complete: pad_file was called after it
HeaderComplete(file) == HasSegment(file, "header") /\ HasSegment(file, "pad")

\* the number of bytes written from the start of the header to the first
\* call of pad_file
HeaderBytes(file) ==
    LET first == CHOOSE i \in 1..Len(file.segs) :
                    /\ file.segs[i].name = "pad"
                    /\ \A j \in 1..(i - 1) : file.segs[j].name # "pad"
    IN  file.segs[first].off - SegmentOffset(file, "header")

\* C24: the header size a header declares is the number of bytes written
\* before its padding: 1648 for boot version 1, 1660 for version 2, 1580
\* for versions 3 and 4, 2112 for vendor boot version 3 and 2128 for
\* version 4; version 0 writes 1632 bytes and no size field. The command
\* line starts at byte 64 (its extra part at 608) in a legacy header, at
\* byte 44 in a version 3 or 4 header and at byte 28 in a vendor boot
\* header.
C24_HeaderSizes ==
    /\ HeaderComplete(output) =>
          LET image == OpenImage(output.f)
              v == args.header_version
          IN  /\ v \in {3, 4} =>
                    /\ HeaderBytes(output) = 1580
                    /\ ReadI(image, 20) = IntToNum(1580)
                    /\ ReadS(image, 44, 1536) = PackS(1536, encode(args.cmdline))
              /\ v < 3 =>
                    /\ HeaderBytes(output) = (CASE v = 0 -> 1632 [] v = 1 -> 1648 [] v = 2 -> 1660)
                    /\ v = 0 => \A off \in 1632..1660 : ChunkAt(image, off) = 0 \/ off = 1632
                    /\ v = 0 => image.chunks[ChunkAt(image, 1632)].k = "x"
                    /\ v > 0 => ReadI(image, 1644) = IntToNum(HeaderBytes(output))
                    /\ ReadS(image, 64, 512) = PackS(512, encode(Take(args.cmdline, 512)))
                    /\ ReadS(image, 608, 1024) = PackS(1024, encode(Drop(args.cmdline, 512)))
    /\ HeaderComplete(vendor_boot) =>
          LET image == OpenImage(vendor_boot.f)
          IN  /\ HeaderBytes(vendor_boot) = (IF args.header_version = 3 THEN 2112 ELSE 2128)
              /\ ReadI(image, 2096) = IntToNum(HeaderBytes(vendor_boot))
              /\ ReadS(image, 28, 2048) = PackS(2048, encode(args.vendor_cmdline))

\* a version 4 boot image and a version 4 vendor boot image written by one
\* command, the vendor boot image with a command line
C24_Witness ==
    /\ pc = "done" /\ err = NoError
    /\ HeaderComplete(output) /\ HeaderComplete(vendor_boot)
    /\ args.header_version = 4
    /\ HeaderBytes(output) = 1580 /\ HeaderBytes(vendor_boot) = 2128
    /\ StrLen(args.vendor_cmdline) > 0

\* repack_bootimg has run on the files unpack_bootimg left
RepackRan == (pc = "repack_failed" \/ original.repacking) /\ decoded.err = NoError

\* the names of intact_image_candidates whose file exists, in their order
IntactOptions ==
    LET IsThere(name) == Exists(decoded.files, name)
    IN  SelectSeq(<<"dtb", "kernel", "recovery_dtbo", "second">>, IsThere)

\* C25: repack_bootimg runs mkbootimg with the saved metadata options, then
\* the options of the intact extracted images (dtb, kernel, recovery_dtbo,
\* second, those that exist), then the new ramdisk, and writes to the
\* target image itself; it passes --vendor_ramdisk and --vendor_boot iff
\* the unpacked target holds a file vendor_ramdisk and no file ramdisk,
\* --ramdisk and --output iff it holds ramdisk, and fails with a
\* RuntimeError when it holds neither.
C25_RepackOrchestration ==
    RepackRan =>
        LET files == decoded.files
            has_ramdisk == Exists(files, "ramdisk")
            has_vendor_ramdisk == Exists(files, "vendor_ramdisk")
            order == original.order
            saved == IF decoded.json = None THEN {} ELSE DOMAIN decoded.json[1]
            n == Cardinality(saved)
        IN  /\ (~has_ramdisk /\ ~has_vendor_ramdisk) <=> (pc = "repack_failed" /\ err = "RuntimeError")
            /\ (has_ramdisk \/ has_vendor_ramdisk) =>
                  /\ original.repacking
                  /\ Len(order) = n + Len(IntactOptions) + 2
                  /\ {order[i] : i \in 1..n} = saved
                  /\ \A key \in saved : argv[key] = Some(decoded.json[1][key])
                  /\ SubSeq(order, n + 1, Len(order) - 2) = IntactOptions
                  /\ \A name \in {"dtb", "kernel", "recovery_dtbo", "second"} :
                        argv[name] = IF Exists(files, name) THEN Extracted(files, name) ELSE None
                  /\ has_ramdisk =>
                        /\ SubSeq(order, Len(order) - 1, Len(order)) = <<"ramdisk", "output">>
                        /\ argv.ramdisk = Extracted(files, "ramdisk")
                        /\ argv.output /\ ~argv.vendor_boot /\ argv.vendor_ramdisk = None
                        /\ boot_img = "output"
                  /\ ~has_ramdisk =>
                        /\ SubSeq(order, Len(order) - 1, Len(order)) = <<"vendor_ramdisk", "vendor_boot">>
                        /\ argv.vendor_ramdisk = Extracted(files, "vendor_ramdisk")
                        /\ argv.vendor_boot /\ ~argv.output /\ argv.ramdisk = None
                        /\ boot_img = "vendor_boot"

\* the option groups of the command line go to parse_vendor_ramdisk_args
GroupsParsed == argv.vendor_boot /\ args.header_version > 3

\* the command line holds an argument that neither the main parser nor the
\* parser of an option group knows
HasUnrecognized ==
    \/ argv.extra > 0
    \/ IF GroupsParsed THEN \E i \in 1..Len(argv.fragments) : argv.fragments[i].unknown > 0
       ELSE argv.fragments # <<>>

\* the command line without those arguments
Recognized ==
    [argv EXCEPT !.extra = 0,
                 !.fragments = IF GroupsParsed
                               THEN [i \in 1..Len(@) |-> [@[i] EXCEPT !.unknown = 0]]
                               ELSE <<>>]

\* no byte was written to --output or --vendor_boot
NothingWritten == output.f = <<>> /\ vendor_boot.f = <<>>

\* C26 as stated: an argument that neither the main parser nor an option
\* group takes makes mkbootimg fail with 'Unrecognized arguments' before a
\* byte is written to --output or --vendor_boot; the options of the option
\* groups are such arguments unless --vendor_boot is given with a header
\* version above 3, and so is what follows the last option group.
C26_UnrecognizedError ==
    (pc # "start" /\ HasUnrecognized) =>
        pc = "failed" /\ err = "UnrecognizedArguments" /\ NothingWritten

\* C26, amended: such an argument makes mkbootimg fail before a byte is
\* written; the error is 'Unrecognized arguments' when the command line
\* without the argument is accepted, and otherwise the error of that
\* command line, which is raised first.
C26_UnrecognizedRejected ==
    (pc # "start" /\ HasUnrecognized) =>
        /\ pc = "failed" /\ NothingWritten
        /\ LET first == parse_cmdline(Recognized).err
           IN  err = IF first = NoError THEN "UnrecognizedArguments" ELSE first

\* a version 4 vendor boot command line with an option group and one more
\* argument after it: rejected, the file of --vendor_boot created and empty
C26_Witness ==
    /\ pc = "failed" /\ err = "UnrecognizedArguments"
    /\ GroupsParsed /\ args.header_version = 4
    /\ Len(argv.fragments) = 1 /\ argv.fragments[1].unknown = 0 /\ argv.extra = 1
    /\ vendor_boot.exists /\ NothingWritten

\* C27: the os word of the header is (os_version << 11) | os_patch_level,
\* and the strings unpack_bootimg saves for it in mkbootimg_args.json are
\* accepted by parse_os_version and parse_os_patch_level and give the
\* os_version and os_patch_level of the encoder again, also the 0 of a
\* command line without --os_version or --os_patch_level.
C27_OsVersionRoundTrip ==
    (pc = "unpacked" /\ boot_img = "output" /\ decoded.err = NoError /\ decoded.json # None) =>
        LET json == decoded.json[1]
        IN  /\ ReadI(OpenImage(output.f), 16) = OsWord(args.os_version, args.os_patch_level)
            /\ parse_os_version(json.os_version) = [err |-> NoError, v |-> args.os_version]
            /\ parse_os_patch_level(json.os_patch_level)
                  = [err |-> NoError, v |-> args.os_patch_level]

\* C28: the header version lies at byte 40, after the magic and eight
\* words, in the legacy and in the version 3 and 4 header alike, so
\* unpack_bootimg, which reads nine words and takes the ninth, sees the
\* version mkbootimg wrote; it reads the header as a legacy header iff the
\* version is below 3, taking the sizes of kernel, ramdisk and second from
\* words 0, 2 and 4 and the page size from word 7, and otherwise the sizes
\* of kernel and ramdisk and the os word from words 0, 1 and 2.
C28_VersionDispatch ==
    (pc = "unpacked" /\ boot_img = "output" /\ decoded.err = NoError) =>
        LET image == OpenImage(output.f)
            W(j) == ReadI(image, 8 + 4 * j)
            v == args.header_version
        IN  /\ ChunkAt(image, 40) > 0
            /\ ReadI(image, 40) = IntToNum(v)
            /\ decoded.reader = "boot" /\ decoded.version = v
            /\ v >= 3 =>
                  /\ W(0) = Size(args.kernel) /\ W(1) = Size(args.ramdisk)
                  /\ W(2) = OsWord(args.os_version, args.os_patch_level)
                  /\ DecodedFile("kernel").size = NumToInt(W(0))
                  /\ DecodedFile("ramdisk").size = NumToInt(W(1))
                  /\ DecodedFile("kernel").offset = 4096
                  /\ ~Exists(decoded.files, "second")
                  /\ decoded.json # None
                  /\ decoded.json[1].os_version = format_os_version(OsVersionOf(W(2)))
                  /\ decoded.json[1].os_patch_level
                        = format_os_patch_level(OsPatchLevelOf(W(2)))
            /\ v < 3 =>
                  /\ W(0) = Size(args.kernel) /\ W(2) = Size(args.ramdisk)
                  /\ W(4) = Size(args.second) /\ W(7) = IntToNum(args.pagesize)
                  /\ DecodedFile("kernel").size = NumToInt(W(0))
                  /\ DecodedFile("ramdisk").size = NumToInt(W(2))
                  /\ Exists(decoded.files, "second") <=> NumToInt(W(4)) > 0
                  /\ Exists(decoded.files, "second") =>
                        DecodedFile("second").size = NumToInt(W(4))
                  /\ DecodedFile("kernel").offset = NumToInt(W(7))
                  /\ decoded.json = None

\* a version 2 image with a second segment and pages of 4096 bytes, and
\* kernel and ramdisk of different sizes, decoded
C28_Witness ==
    /\ pc = "unpacked" /\ boot_img = "output" /\ decoded.err = NoError
    /\ args.header_version = 2 /\ args.pagesize = 4096
    /\ filesize(args.kernel) = 1 /\ filesize(args.ramdisk) = 4097
    /\ Exists(decoded.files, "second") /\ DecodedFile("second").size = 2049
    /\ DecodedFile("ramdisk").size = 4097

\* write_header has written to the file of a boot image of version 0 to 2
LegacyHeaderRan == args.output /\ args.header_version < 3 /\ output.f # <<>>

\* the sums of base and offset that the legacy header of the command line
\* holds: kernel and tags, ramdisk and second when they are not empty
LegacyAddresses ==
    {NumAdd(args.base, args.kernel_offset), NumAdd(args.base, args.tags_offset)}
    \cup (IF filesize(args.ramdisk) > 0 THEN {NumAdd(args.base, args.ramdisk_offset)} ELSE {})
    \cup (IF filesize(args.second) > 0 THEN {NumAdd(args.base, args.second_offset)} ELSE {})

\* C29: in the header of a boot image of version 0 to 2 the ramdisk address
\* is base + ramdisk_offset when the ramdisk is not empty and 0 otherwise,
\* the second address is base + second_offset when second is not empty and
\* 0 otherwise, and the kernel and tags addresses are base + kernel_offset
\* and base + tags_offset; no address is reduced modulo 2^32: mkbootimg
\* fails when one of these sums has more than 32 bits.
C29_LegacyAddresses ==
    LegacyHeaderRan =>
        LET image == OpenImage(output.f)
            too_big == \E a \in LegacyAddresses : Len(a) > 8
        IN  /\ too_big => pc = "failed" /\ err = "struct.error" /\ ~HeaderComplete(output)
            /\ ~too_big =>
                  /\ ReadI(image, 12) = NumAdd(args.base, args.kernel_offset)
                  /\ ReadI(image, 20) = IF filesize(args.ramdisk) > 0
                                        THEN NumAdd(args.base, args.ramdisk_offset) ELSE <<>>
                  /\ ReadI(image, 28) = IF filesize(args.second) > 0
                                        THEN NumAdd(args.base, args.second_offset) ELSE <<>>
                  /\ ReadI(image, 32) = NumAdd(args.base, args.tags_offset)

\* a version 1 image with a ramdisk and without second: the ramdisk
\* address is 0x11000000, the second address 0
C29_Witness ==
    /\ LegacyHeaderRan /\ pc = "done" /\ err = NoError
    /\ args.header_version = 1
    /\ filesize(args.ramdisk) > 0 /\ filesize(args.second) = 0
    /\ ReadI(OpenImage(output.f), 20) = <<1, 1, 0, 0, 0, 0, 0, 0>>
    /\ ReadI(OpenImage(output.f), 28) = <<>>

====
